---- MODULE Spec2Model ----
(***************************************************************************)
(* Model of the record-reconstruction pipeline of micro-lab-ocr:           *)
(*   src/backend_preservation.py  PreservationTestOCR (layout-analysis     *)
(*                                backend) and process_preservation_page   *)
(*   src/backend.py               DataCleaner (document-parse backend)     *)
(*                                                                         *)
(* A text is a sequence of characters; a character is a one-character      *)
(* string.  A character outside ASCII is written as its code point, e.g.   *)
(* "U+00D7" for the multiplication sign, and is still ONE character of the *)
(* text.  Python's regular expressions are evaluated by the matcher        *)
(* below (leftmost match, greedy quantifiers, backtracking), Python's      *)
(* dicts are sequences of entries in insertion order.                      *)
(***************************************************************************)
EXTENDS Integers, Sequences, FiniteSets, TLC

VARIABLES
    pc,                    \* position of the running page pipeline
    table_matrix,          \* row index -> row (cells in insertion order)
    date_info,             \* the Date Block returned by _extract_date_info
    header_row,            \* result of _find_header_row
    column_map,            \* result of _identify_columns
    row_idx,               \* loop variable of the row loop
    current_test,          \* identifier context: test number
    current_prescription,  \* identifier context: prescription number
    test_data,             \* records emitted by the row loop
    sort_idx,              \* loop variable of the post-pass
    current_test_number,   \* post-pass: test number of the open group
    test_group,            \* post-pass: the open group
    sorted_data,           \* post-pass: output
    page_result,           \* what process_preservation_page returns
    legacy,                \* state of DataCleaner.parse_table_rows
    call,                  \* a call of the Value Normalizer or the Identifier
                           \* Extractor on its own: arguments, position, results
    pages                  \* the pages of a document: those still to be processed,
                           \* the results returned so far, and the local state of
                           \* a second invocation of the page pipeline

vars == <<pc, table_matrix, date_info, header_row, column_map, row_idx,
          current_test, current_prescription, test_data, sort_idx,
          current_test_number, test_group, sorted_data, page_result, legacy,
          call, pages>>

----------------------------------------------------------------------------
(* Characters and Python's str methods *)

Digits == {"0", "1", "2", "3", "4", "5", "6", "7", "8", "9"}
UpperLetters == {"A", "B", "C", "D", "E", "F", "G", "H", "I", "J", "K", "L", "M",
                 "N", "O", "P", "Q", "R", "S", "T", "U", "V", "W", "X", "Y", "Z"}
LowerLetters == {"a", "b", "c", "d", "e", "f", "g", "h", "i", "j", "k", "l", "m",
                 "n", "o", "p", "q", "r", "s", "t", "u", "v", "w", "x", "y", "z"}
\* Hangul syllables used by the source's keywords, by code point:
\* U+ADE0 U+C8FC (strain), U+C77C (day), U+C811 U+C885 (inoculation),
\* U+D310 U+C815 (judgment), U+CD5C U+C885 (final)
Hangul == {"U+ADE0", "U+C8FC", "U+C77C", "U+C811", "U+C885", "U+D310", "U+C815",
           "U+CD5C"}
Whitespace == {" ", "\t", "\n", "\r", "\f"}
\* \w of a Python str pattern
WordChars == Digits \cup UpperLetters \cup LowerLetters \cup Hangul \cup {"_"}

UpperOf == [c \in LowerLetters |->
    CASE c = "a" -> "A" [] c = "b" -> "B" [] c = "c" -> "C" [] c = "d" -> "D"
      [] c = "e" -> "E" [] c = "f" -> "F" [] c = "g" -> "G" [] c = "h" -> "H"
      [] c = "i" -> "I" [] c = "j" -> "J" [] c = "k" -> "K" [] c = "l" -> "L"
      [] c = "m" -> "M" [] c = "n" -> "N" [] c = "o" -> "O" [] c = "p" -> "P"
      [] c = "q" -> "Q" [] c = "r" -> "R" [] c = "s" -> "S" [] c = "t" -> "T"
      [] c = "u" -> "U" [] c = "v" -> "V" [] c = "w" -> "W" [] c = "x" -> "X"
      [] c = "y" -> "Y" [] c = "z" -> "Z"]

LowerOf == [c \in UpperLetters |-> CHOOSE l \in LowerLetters : UpperOf[l] = c]

\* str.upper()
Upper(s) == [i \in 1..Len(s) |-> IF s[i] \in LowerLetters THEN UpperOf[s[i]] ELSE s[i]]

\* str.lower()
Lower(s) == [i \in 1..Len(s) |-> IF s[i] \in UpperLetters THEN LowerOf[s[i]] ELSE s[i]]

\* str.strip()
Strip(s) ==
    LET keep == {i \in 1..Len(s) : s[i] \notin Whitespace}
    IN  IF keep = {} THEN <<>>
        ELSE LET lo == CHOOSE i \in keep : \A j \in keep : i <= j
                 hi == CHOOSE i \in keep : \A j \in keep : j <= i
             IN  SubSeq(s, lo, hi)

\* needle in s
Contains(s, needle) ==
    \E i \in 1..(Len(s) - Len(needle) + 1) : SubSeq(s, i, i + Len(needle) - 1) = needle

\* s.startswith(prefix)
StartsWith(s, prefix) == Len(s) >= Len(prefix) /\ SubSeq(s, 1, Len(prefix)) = prefix

\* ' '.join(parts)
RECURSIVE JoinSpace(_)
JoinSpace(parts) ==
    IF Len(parts) = 0 THEN <<>>
    ELSE IF Len(parts) = 1 THEN parts[1]
    ELSE parts[1] \o <<" ">> \o JoinSpace(Tail(parts))

\* str.zfill(width)
RECURSIVE ZFill(_, _)
ZFill(s, width) == IF Len(s) >= width THEN s ELSE ZFill(<<"0">> \o s, width)

DigitValue == [c \in Digits |->
    CASE c = "0" -> 0 [] c = "1" -> 1 [] c = "2" -> 2 [] c = "3" -> 3 [] c = "4" -> 4
      [] c = "5" -> 5 [] c = "6" -> 6 [] c = "7" -> 7 [] c = "8" -> 8 [] c = "9" -> 9]

DigitChar == [n \in 0..9 |-> CHOOSE c \in Digits : DigitValue[c] = n]

\* int(s) for a text of decimal digits
RECURSIVE ParseInt(_)
ParseInt(s) ==
    IF Len(s) = 0 THEN 0
    ELSE 10 * ParseInt(SubSeq(s, 1, Len(s) - 1)) + DigitValue[s[Len(s)]]

----------------------------------------------------------------------------
(* Regular expressions.  A pattern is a sequence of items: a character     *)
(* class with a greedy repetition lo..hi, or one of the zero-width items   *)
(* \b, ^ and $.  MatchFrom gives, for a match of the items i.. at          *)
(* position pos, the position after each item; NoMatch if there is none.   *)
(* The first alternative tried is the longest repetition, as in Python.    *)

Cls(set, lo, hi) == [k |-> "cls", set |-> set, lo |-> lo, hi |-> hi]
One(set)   == Cls(set, 1, 1)
Opt(set)   == Cls(set, 0, 1)
Lit(c)     == Cls({c}, 1, 1)
\* hi = -1: no upper limit
Plus(set)  == Cls(set, 1, -1)
Star(set)  == Cls(set, 0, -1)
WB         == [k |-> "wb",  set |-> {}, lo |-> 0, hi |-> 0]
BOS        == [k |-> "bos", set |-> {}, lo |-> 0, hi |-> 0]
EOS        == [k |-> "eos", set |-> {}, lo |-> 0, hi |-> 0]

NoMatch == <<-1>>

IsWordAt(s, i) == i >= 1 /\ i <= Len(s) /\ s[i] \in WordChars

\* number of consecutive characters of s from pos on that are in set, at most hi
RECURSIVE RunLen(_, _, _, _)
RunLen(s, pos, set, hi) ==
    IF hi = 0 \/ pos > Len(s) \/ s[pos] \notin set THEN 0
    ELSE 1 + RunLen(s, pos + 1, set, hi - 1)

RECURSIVE MatchFrom(_, _, _, _)
RECURSIVE TryCount(_, _, _, _, _)
MatchFrom(p, i, s, pos) ==
    IF i > Len(p) THEN <<>>
    ELSE IF p[i].k = "cls" THEN TryCount(p, i, s, pos, RunLen(s, pos, p[i].set, p[i].hi))
    ELSE LET ok == CASE p[i].k = "wb"  -> IsWordAt(s, pos - 1) # IsWordAt(s, pos)
                     [] p[i].k = "bos" -> pos = 1
                     \* $ also matches before a newline that ends the text
                     [] p[i].k = "eos" -> \/ pos = Len(s) + 1
                                          \/ pos = Len(s) /\ s[pos] = "\n"
             rest == MatchFrom(p, i + 1, s, pos)
         IN  IF ok /\ rest # NoMatch THEN <<pos>> \o rest ELSE NoMatch

TryCount(p, i, s, pos, n) ==
    IF n < p[i].lo THEN NoMatch
    ELSE LET rest == MatchFrom(p, i + 1, s, pos + n)
         IN  IF rest # NoMatch THEN <<pos + n>> \o rest
             ELSE TryCount(p, i, s, pos, n - 1)

\* re.match(p, s): the positions after each item, or NoMatch
ReMatch(p, s) == MatchFrom(p, 1, s, 1)

\* re.search(p, s): [start, ends] of the leftmost match, start = 0 if none
RECURSIVE SearchFrom(_, _, _)
SearchFrom(p, s, pos) ==
    IF pos > Len(s) + 1 THEN [start |-> 0, ends |-> NoMatch]
    ELSE LET m == MatchFrom(p, 1, s, pos)
         IN  IF m # NoMatch THEN [start |-> pos, ends |-> m]
             ELSE SearchFrom(p, s, pos + 1)

ReSearch(p, s) == SearchFrom(p, s, 1)

\* the text matched by items from..to of a match m that started at start
Group(s, start, m, from, to) ==
    SubSeq(s, IF from = 1 THEN start ELSE m[from - 1], m[to] - 1)

----------------------------------------------------------------------------
(* The Cell Matrix.  table_matrix maps a row index to a row; a row is the  *)
(* Python dict {col_idx: text} as the sequence of its entries in insertion *)
(* order (extract_preservation_test_table fills it cell by cell).          *)

Cell(c, t) == [col |-> c, text |-> t]

RowCols(row) == {row[i].col : i \in 1..Len(row)}

\* col in row_data
RowHas(row, c) == c \in RowCols(row)

\* row_data.get(col, default)
RowGet(row, c, default) ==
    IF RowHas(row, c) THEN row[CHOOSE i \in 1..Len(row) : row[i].col = c].text
    ELSE default

\* the texts of row_data.values(), in insertion order
RowValues(row) == [i \in 1..Len(row) |-> row[i].text]

\* the entries of a row in the order of sorted(row_data.keys())
RECURSIVE SortedByCol(_)
SortedByCol(row) ==
    IF Len(row) = 0 THEN <<>>
    ELSE LET i == CHOOSE i \in 1..Len(row) : \A j \in 1..Len(row) : row[i].col <= row[j].col
         IN  <<row[i]>> \o SortedByCol([k \in 1..(Len(row) - 1) |->
                                           IF k < i THEN row[k] ELSE row[k + 1]])

\* len(table_matrix): the number of rows present
MatrixLen(tm) == Cardinality(DOMAIN tm)

Min(a, b) == IF a <= b THEN a ELSE b

----------------------------------------------------------------------------
(* Date-Block Extractor: PreservationTestOCR._extract_date_info *)

\* r'^(\d)\.(\d)\s+(\d{1,2})$'
P_DateFix == <<BOS, One(Digits), Lit("."), One(Digits), Plus(Whitespace),
               Cls(Digits, 1, 2), EOS>>
\* r'^(\d{1,2})[/\-.](\d{1,2})$'
P_DateSep == <<BOS, Cls(Digits, 1, 2), One({"/", "-", "."}), Cls(Digits, 1, 2), EOS>>
\* r'^(\d{1,2})\s+(\d{1,2})$'
P_DateSpace == <<BOS, Cls(Digits, 1, 2), Plus(Whitespace), Cls(Digits, 1, 2), EOS>>

\* re.sub(r'^(\d)\.(\d)\s+(\d{1,2})$', r'\1\2 \3', value)
DateCorrected(value) ==
    LET m == ReMatch(P_DateFix, value)
    IN  IF m = NoMatch THEN value
        ELSE <<value[1], value[3], " ">> \o Group(value, 1, m, 6, 6)

\* the (month, day) groups of the cell if it is date-like, else <<>>
DateToken(text) ==
    LET value == DateCorrected(Strip(text))
        m1 == ReMatch(P_DateSep, value)
        m2 == ReMatch(P_DateSpace, value)
    IN  IF m1 # NoMatch THEN <<Group(value, 1, m1, 2, 2), Group(value, 1, m1, 4, 4)>>
        ELSE IF m2 # NoMatch THEN <<Group(value, 1, m2, 2, 2), Group(value, 1, m2, 4, 4)>>
        ELSE <<>>

\* the list `dates` of one row: the tokens of its cells, in sorted column order
RECURSIVE DatesOf(_)
DatesOf(cells) ==
    IF Len(cells) = 0 THEN <<>>
    ELSE LET tok == DateToken(cells[1].text)
         IN  (IF tok = <<>> THEN <<>> ELSE <<tok>>) \o DatesOf(Tail(cells))

\* the cells taken in the order in which the row holds them
RowDatesUnsorted(row) == DatesOf(row)

RowDates(row) == DatesOf(SortedByCol(row))

\* f"{m.zfill(2)}/{d.zfill(2)}"
PaddedDate(tok) == ZFill(tok[1], 2) \o <<"/">> \o ZFill(tok[2], 2)

ReferenceYear == 2024

IsLeap(y) == (y % 4 = 0 /\ y % 100 # 0) \/ y % 400 = 0

DaysInMonth(y, m) ==
    IF m = 2 THEN (IF IsLeap(y) THEN 29 ELSE 28)
    ELSE IF m \in {4, 6, 9, 11} THEN 30 ELSE 31

\* datetime(y, m, d) does not raise ValueError
ValidDate(y, m, d) == m >= 1 /\ m <= 12 /\ d >= 1 /\ d <= DaysInMonth(y, m)

\* date + timedelta(days=n), as <<year, month, day>>
RECURSIVE AddDays(_, _, _, _)
AddDays(y, m, d, n) ==
    IF n = 0 THEN <<y, m, d>>
    ELSE IF d < DaysInMonth(y, m) THEN AddDays(y, m, d + 1, n - 1)
    ELSE IF m < 12 THEN AddDays(y, m + 1, 1, n - 1)
    ELSE AddDays(y + 1, 1, 1, n - 1)

TwoDigits(n) == <<DigitChar[n \div 10], DigitChar[n % 10]>>

\* date.strftime("%m/%d")
Strftime(date) == TwoDigits(date[2]) \o <<"/">> \o TwoDigits(date[3])

EmptyDict == [k \in {} |-> 0]

\* first pass (lines 311-356): the first scanned row with four or more date-like cells
RECURSIVE FourDatePass(_, _, _)
FourDatePass(tm, r, limit) ==
    IF r >= limit THEN EmptyDict
    ELSE IF r \notin DOMAIN tm THEN FourDatePass(tm, r + 1, limit)
    ELSE LET dates == RowDates(tm[r])
         IN  IF Len(dates) >= 4
             THEN [date_0 |-> PaddedDate(dates[1]), date_7 |-> PaddedDate(dates[2]),
                   date_14 |-> PaddedDate(dates[3]), date_28 |-> PaddedDate(dates[4])]
             ELSE FourDatePass(tm, r + 1, limit)

\* the block derived from a start date (lines 379-388 and 398-407)
DerivedBlock(month, day) ==
    [date_0  |-> Strftime(<<ReferenceYear, month, day>>),
     date_7  |-> Strftime(AddDays(ReferenceYear, month, day, 7)),
     date_14 |-> Strftime(AddDays(ReferenceYear, month, day, 14)),
     date_28 |-> Strftime(AddDays(ReferenceYear, month, day, 28))]

\* second pass (lines 358-411): rows in ascending order, the cells of a row in
\* the order of row_data.items(); a token that is no calendar date raises in
\* datetime() and the scan continues with the next cell
\* the second pass without its try/except: the ValueError of datetime() leaves
\* _extract_date_info
RECURSIVE SingleDateCellsUncaught(_)
SingleDateCellsUncaught(cells) ==
    IF Len(cells) = 0 THEN EmptyDict
    ELSE LET tok == DateToken(cells[1].text)
         IN  IF tok = <<>> THEN SingleDateCellsUncaught(Tail(cells))
             ELSE IF ValidDate(ReferenceYear, ParseInt(tok[1]), ParseInt(tok[2]))
             THEN DerivedBlock(ParseInt(tok[1]), ParseInt(tok[2]))
             ELSE [raised |-> "ValueError"]

RECURSIVE SingleDateCells(_)
SingleDateCells(cells) ==
    IF Len(cells) = 0 THEN EmptyDict
    ELSE LET tok == DateToken(cells[1].text)
         IN  IF tok # <<>> /\ ValidDate(ReferenceYear, ParseInt(tok[1]), ParseInt(tok[2]))
             THEN DerivedBlock(ParseInt(tok[1]), ParseInt(tok[2]))
             ELSE SingleDateCells(Tail(cells))

RECURSIVE SingleDatePass(_, _, _)
SingleDatePass(tm, r, limit) ==
    IF r >= limit THEN EmptyDict
    ELSE IF r \notin DOMAIN tm THEN SingleDatePass(tm, r + 1, limit)
    ELSE LET found == SingleDateCells(tm[r])
         IN  IF found # EmptyDict THEN found ELSE SingleDatePass(tm, r + 1, limit)

DateScanRows == 5

_extract_date_info(tm) ==
    LET limit == Min(DateScanRows, MatrixLen(tm))
        four == FourDatePass(tm, 0, limit)
    IN  IF four # EmptyDict THEN four ELSE SingleDatePass(tm, 0, limit)

----------------------------------------------------------------------------
(* Identifier Extractor: PreservationTestOCR._extract_test_info_from_row *)

\* re.sub(p, repl, s) for a pattern that matches no empty text and a
\* replacement without group references
RECURSIVE ReSubFrom(_, _, _, _)
ReSubFrom(p, repl, s, pos) ==
    IF pos > Len(s) THEN <<>>
    ELSE LET m == MatchFrom(p, 1, s, pos)
         IN  IF m # NoMatch /\ m[Len(m)] > pos
             THEN repl \o ReSubFrom(p, repl, s, m[Len(m)])
             ELSE <<s[pos]>> \o ReSubFrom(p, repl, s, pos + 1)

ReSub(p, repl, s) == ReSubFrom(p, repl, s, 1)

\* s.replace(old, new) for a one-character old
ReplaceChar(s, old, new) == [i \in 1..Len(s) |-> IF s[i] = old THEN new ELSE s[i]]

\* lines 944-950
PreprocessBulkName(row_text) ==
    LET t1 == ReplaceChar(ReplaceChar(Upper(row_text), "!", "I"), "|", "I")
        t2 == ReSub(<<Lit("-"), Plus(Whitespace)>>, <<"-">>, t1)
        t3 == ReSub(<<Plus(Whitespace), Lit("-")>>, <<"-">>, t2)
        t4 == ReSub(<<Plus({"-"})>>, <<"-">>, t3)
    IN  ReSub(<<Plus(Whitespace)>>, <<" ">>, t4)

test_patterns == <<
    \* r'\b(2[0-9][A-Z]\d{2}[I!|1]\d{2})\b'
    <<WB, Lit("2"), One(Digits), One(UpperLetters), Cls(Digits, 2, 2),
      One({"I", "!", "|", "1"}), Cls(Digits, 2, 2), WB>>,
    \* r'\b(2[0-9][E]\d{2}1\d{2})\b'
    <<WB, Lit("2"), One(Digits), Lit("E"), Cls(Digits, 2, 2), Lit("1"),
      Cls(Digits, 2, 2), WB>>>>

\* re.sub(r'([A-Z])(\d{2})1(\d{2})', r'\g<1>\g<2>I\g<3>', test_number)
P_OneForI == <<One(UpperLetters), Cls(Digits, 2, 2), Lit("1"), Cls(Digits, 2, 2)>>

RECURSIVE FixOneForIFrom(_, _)
FixOneForIFrom(s, pos) ==
    IF pos > Len(s) THEN <<>>
    ELSE LET m == MatchFrom(P_OneForI, 1, s, pos)
         IN  IF m # NoMatch
             THEN SubSeq(s, pos, pos + 2) \o <<"I">> \o SubSeq(s, pos + 4, pos + 5)
                    \o FixOneForIFrom(s, m[Len(m)])
             ELSE <<s[pos]>> \o FixOneForIFrom(s, pos + 1)

FixOneForI(s) == FixOneForIFrom(s, 1)

\* the text between the first and the last item (both \b) of a found match
WholeGroup(s, found) == SubSeq(s, found.start, found.ends[Len(found.ends)] - 1)

\* lines 958-968: the first pattern of the list that is found decides
RECURSIVE FirstTestNumber(_, _)
FirstTestNumber(patterns, text) ==
    IF Len(patterns) = 0 THEN <<>>
    ELSE LET found == ReSearch(patterns[1], text)
         IN  IF found.start # 0
             THEN ReplaceChar(ReplaceChar(FixOneForI(WholeGroup(text, found)),
                                          "|", "I"), "!", "I")
             ELSE FirstTestNumber(Tail(patterns), text)

L(lo, hi) == Cls(UpperLetters, lo, hi)
D(lo, hi) == Cls(Digits, lo, hi)
Dash == Lit("-")

prescription_patterns == <<
    \* r'\b([A-Z]{2,4}\d{4,5}[A-Z]?-[A-Z]{1,5}\d?)\b'
    <<WB, L(2, 4), D(4, 5), L(0, 1), Dash, L(1, 5), D(0, 1), WB>>,
    \* r'\b([A-Z]{3}\d{5}-[A-Z]{2,4})\b'
    <<WB, L(3, 3), D(5, 5), Dash, L(2, 4), WB>>,
    \* r'\b(M-[A-Z]{2,4}\d{4,5}-[A-Z]{1,4}\d?)\b'
    <<WB, Lit("M"), Dash, L(2, 4), D(4, 5), Dash, L(1, 4), D(0, 1), WB>>,
    \* r'\b([A-Z]{2,4}\d{3,6}-[A-Z]{1,5})\b'
    <<WB, L(2, 4), D(3, 6), Dash, L(1, 5), WB>>,
    \* r'\b([A-Z]{2,5}\d{4}-[A-Z]{1,3}\d{0,2})\b'
    <<WB, L(2, 5), D(4, 4), Dash, L(1, 3), D(0, 2), WB>>,
    \* r'\b([A-Z]{1,3}\d{4,5}-[A-Z]{2,4}[A-Z]?)\b'
    <<WB, L(1, 3), D(4, 5), Dash, L(2, 4), L(0, 1), WB>>,
    \* r'\b([A-Z]{2,4}\d{4}-[A-Z]\d[A-Z]{1,3})\b'
    <<WB, L(2, 4), D(4, 4), Dash, L(1, 1), D(1, 1), L(1, 3), WB>>,
    \* r'\b([A-Z]{2,4}\d{3,4}[A-Z]?-[A-Z]{1,4}\d*)\b'
    <<WB, L(2, 4), D(3, 4), L(0, 1), Dash, L(1, 4), Star(Digits), WB>>,
    \* r'\b([A-Z]{2,4}\d{4}-\d{1,2}[A-Z]{1,2})\b'
    <<WB, L(2, 4), D(4, 4), Dash, D(1, 2), L(1, 2), WB>>,
    \* r'\b([A-Z]{2,4}\d{4,5}[A-Z]?-\s*[A-Z]{1,5}\d?)\b'
    <<WB, L(2, 4), D(4, 5), L(0, 1), Dash, Star(Whitespace), L(1, 5), D(0, 1), WB>>,
    \* r'\b([A-Z]{2,4}\d{4,5}[A-Z]?-\s*[A-Z]+\d+[A-Z]+)\b'
    <<WB, L(2, 4), D(4, 5), L(0, 1), Dash, Star(Whitespace), Plus(UpperLetters),
      Plus(Digits), Plus(UpperLetters), WB>>,
    \* r'\b([A-Z]{2,4}\d{4,5}[A-Z]?-[A-Z]{1,5}\d[A-Z]+)\b'
    <<WB, L(2, 4), D(4, 5), L(0, 1), Dash, L(1, 5), D(1, 1), Plus(UpperLetters), WB>>,
    \* r'\b([A-Z]{2,4}\d{3,5}-[A-Z]{1,4}\d{1,2})\b'
    <<WB, L(2, 4), D(3, 5), Dash, L(1, 4), D(1, 2), WB>>,
    \* r'\b([A-Z]{2,5}\d{3,5}-[A-Z]{2,5}[A-Z\d]*)\b'
    <<WB, L(2, 5), D(3, 5), Dash, L(2, 5), Star(UpperLetters \cup Digits), WB>>>>

\* lines 1001-1005
RECURSIVE FirstPrescription(_, _)
FirstPrescription(patterns, text) ==
    IF Len(patterns) = 0 THEN <<>>
    ELSE LET found == ReSearch(patterns[1], text)
         IN  IF found.start # 0 THEN Strip(WholeGroup(text, found))
             ELSE FirstPrescription(Tail(patterns), text)

\* (test_number, prescription_number); '' is the empty text <<>>
_extract_test_info_from_row(row_text) ==
    IF row_text = <<>> THEN <<<<>>, <<>>>>
    ELSE LET text == PreprocessBulkName(row_text)
         IN  <<FirstTestNumber(test_patterns, text),
               FirstPrescription(prescription_patterns, text)>>

----------------------------------------------------------------------------
(* re.findall and str.replace *)

\* re.findall(p, s) for a pattern that matches no empty text: the matches from
\* left to right, not overlapping, each as [start, ends]
RECURSIVE FindAllFrom(_, _, _)
FindAllFrom(p, s, pos) ==
    LET found == SearchFrom(p, s, pos)
    IN  IF found.start = 0 THEN <<>>
        ELSE <<found>> \o FindAllFrom(p, s, found.ends[Len(found.ends)])

\* the matched texts of re.findall(p, s), for each pattern of a list in turn
RECURSIVE FindAllTexts(_, _)
FindAllTexts(patterns, s) ==
    IF Len(patterns) = 0 THEN <<>>
    ELSE LET all == FindAllFrom(patterns[1], s, 1)
         IN  [k \in 1..Len(all) |-> WholeGroup(s, all[k])]
               \o FindAllTexts(Tail(patterns), s)

\* s.replace(old, new)
Replace(s, old, new) == ReSub([k \in 1..Len(old) |-> Lit(old[k])], new, s)

----------------------------------------------------------------------------
(* Value Normalizer: PreservationTestOCR._clean_cfu_value and its stages  *)
(* (lines 1205-1600)                                                       *)

Times == "U+00D7"

\* r'(\d+\.?\d*[×xX]10[\^]?\d+)'
scientific_pattern == <<Plus(Digits), Opt({"."}), Star(Digits), One({Times, "x", "X"}),
                        Lit("1"), Lit("0"), Opt({"^"}), Plus(Digits)>>
\* r'<\s*\d+'
less_than_pattern == <<Lit("<"), Star(Whitespace), Plus(Digits)>>

\* lines 1220-1243: with two or more matches the first match is returned
_split_merged_cells(value) ==
    IF value = <<>> THEN value
    ELSE LET matches == FindAllFrom(scientific_pattern, value, 1)
         IN  IF Len(matches) >= 2 THEN WholeGroup(value, matches[1])
             ELSE LET less_matches == FindAllFrom(less_than_pattern, value, 1)
                  IN  IF Len(less_matches) >= 2 THEN WholeGroup(value, less_matches[1])
                      ELSE value

\* lines 1255-1276
_remove_noise(value) ==
    IF value = <<>> THEN value
    ELSE Strip(ReplaceChar(
            Replace(Replace(Replace(Replace(
                Replace(Replace(value, <<":", "s", "e", "l", "e", "c", "t", "e", "d", ":">>, <<>>), <<":", "u", "n", "s", "e", "l", "e", "c", "t", "e", "d", ":">>, <<>>),
                <<"\"">>, <<>>), <<"'">>, <<>>), <<"U+00B0">>, <<>>), <<"U+20AC">>, <<>>),
            "\n", " "))

\* line 1308
meaningless_values == {<<".", ".", ".">>, <<".", ".", ".", ".">>, <<"U+2026">>}

\* lines 1313-1339
less_than_10_patterns == {
    <<"4", "0">>, <<"4", "0", "U+00B0">>, <<"4", "0", "U+20AC">>, <<"C", "I", "O">>, <<"C", "I", "U+00D2">>, <<"C", "1", "0">>,
    <<"4", "1", "0">>, <<"9", "0">>, <<"L", "i", "o">>, <<"L", "I", "O">>, <<"C", "l", "o">>, <<"C", "L", "O">>,
    <<"C", "O">>, <<"c", "i", "o">>, <<"c", "l", "o">>, <<"L", "1", "0">>, <<"L", " ", "1", "0">>, <<"L", "1", "0", "\"">>,
    <<"L", " ", "1", "0", "\"">>, <<"U+20AC", "1", "0">>, <<"U+20AC", " ", "1", "0">>, <<"0", "1", "0">>, <<"(", "1", "0", ")">>, <<"(", "1", "0">>,
    <<"1", "0", ")">>, <<"(", "1", ")">>, <<"(", "1">>, <<"1", ")">>, <<"2", " ", "<", "1", "0">>, <<"L", "I", "O", "N">>,
    <<"L", "I", "O", "N", ",">>, <<"L", "i", "o", "n">>, <<"l", "i", "o", "n">>, <<"z", "i", "o", "n">>, <<"Z", "i", "o", "n">>, <<"Z", "I", "O", "N">>,
    <<"4", "0", "L">>, <<"1", "0", "L">>, <<"4", "0", "0">>, <<"4", "1", "0", "0">>, <<"6", "1", "0">>, <<"C", "l", "e">>,
    <<"C", "L", "E">>, <<"C", "i", "a">>, <<"C", "I", "A">>, <<"C", "C", "O">>, <<"c", "c", "o">>, <<"0", "0">>,
    <<"C", "O", "L">>, <<"C", "o", "l">>, <<"c", "l", "o", "\"">>, <<"c", "l", "o", "'">>}

\* the regular expressions of _fix_less_than_10 that give '<10' before the '<10^2'
\* rules: lines 1348, 1352 (re.IGNORECASE), 1356
P_Lt10Marks == <<BOS, Lit("<"), Star(Whitespace), Lit("1"), Lit("0"),
                 Plus({"?", "-", ")"}), EOS>>
P_Lt10Ion == <<BOS, Lit("<"), Star(Whitespace), One({"c", "z", "s", "C", "Z", "S"}),
               One({"i", "I"}), One({"o", "O"}), One({"n", "N"})>>
P_OneDigit == <<BOS, One(Digits), EOS>>

\* lines 1366, 1370, 1374, 1394 (re.IGNORECASE), 1398, 1402, 1406 (re.IGNORECASE),
\* 1410: the regular expressions that give '<10^2'
less_than_100_regexes == <<
    <<BOS, Lit("<"), Star(Whitespace), Lit("1"), Lit("0"), Opt({"^"}), Lit("2"), EOS>>,
    <<BOS, Lit("<"), Star(Whitespace), Lit("1"), Lit("0"), Opt({"^"}), Lit("2"),
      Opt({","}), EOS>>,
    <<BOS, Lit("<"), Star(Whitespace), Lit("1"), Lit("0"), Plus(Whitespace), Lit("2"), EOS>>,
    <<BOS, One({"S", "C", "s", "c"}), One({"I", "i"}), Opt({"0"}), Lit("2"), Opt({","}), EOS>>,
    <<BOS, One({"5", "C", "6"}), Lit("/"), Opt({"0"}), Lit("2"), EOS>>,
    <<BOS, Lit("("), Star(Whitespace), Lit("1"), Opt({"0"}), Lit("2"), Opt({","}), EOS>>,
    <<BOS, One({"S", "C", "s", "c"}), One({"I", "i"}), Opt({"0"}), Lit("2"),
      Plus(Whitespace), Lit("2"), EOS>>,
    <<BOS, Plus(Digits), One({"4", "5"}), Lit("1"), Lit("0"), Lit("2"), EOS>>>>

\* lines 1378, 1382, 1386, 1390
less_than_100_values == {
    <<"4", "1", "0", "2">>, <<"5", "1", "0", "2">>, <<"6", "1", "0", "2">>, <<"5", "1", "2">>, <<"<", "1", "2">>, <<"<", "6", "2">>,
    <<"<", "1", ".", "2">>, <<"G", "I", "O", "2">>, <<"G", "I", "0", "2">>, <<"C", "I", "S", "2">>, <<"C", "1", "2">>, <<"C", "1", "0", "2">>,
    <<"C", "I", "O", "2">>, <<"C", "l", "o", "2">>, <<"C", "I", "0", "2">>, <<"C", "l", "O", "2">>}

\* lines 1416, 1420
special_less_than_10_values == {
    <<"1", "1", "0">>, <<"2", "1", "0">>, <<"2", "1", "0", "3">>, <<"5", "1", "0">>, <<"<", "1", ">">>, <<"L", "U">>,
    <<"/", "1", "0">>}

\* line 1424: r'^\d+\s*<\s*10'
P_NoiseLt10 == <<BOS, Plus(Digits), Star(Whitespace), Lit("<"), Star(Whitespace),
                 Lit("1"), Lit("0")>>
\* line 1433: r'^<\s*10\s*["\'\s\?\-\)]*$'
P_Lt10Trailing == <<BOS, Lit("<"), Star(Whitespace), Lit("1"), Lit("0"), Star(Whitespace),
                    Star({"\"", "'", "?", "-", ")"} \cup Whitespace), EOS>>

MatchesAny(patterns, value) == \E k \in 1..Len(patterns) : ReMatch(patterns[k], value) # NoMatch

LessThan10 == <<"<", "1", "0">>
LessThan100 == <<"<", "1", "0", "^", "2">>
LessThan1000 == <<"<", "1", "0", "^", "3">>

\* lines 1308-1440 on the stripped value, the rules in the order of the source
FixedLessThan10(value) ==
    IF value \in meaningless_values THEN <<>>
    ELSE IF \/ value \in less_than_10_patterns
            \/ ReMatch(P_Lt10Marks, value) # NoMatch
            \/ ReMatch(P_Lt10Ion, value) # NoMatch
            \/ ReMatch(P_OneDigit, value) # NoMatch
            \/ value = <<"0", "0">>
         THEN LessThan10
    ELSE IF \/ MatchesAny(less_than_100_regexes, value)
            \/ value \in less_than_100_values
         THEN LessThan100
    ELSE IF \/ value \in special_less_than_10_values
            \/ ReMatch(P_NoiseLt10, value) # NoMatch
         THEN LessThan10
    ELSE IF value = <<"1", "0", "3">> THEN LessThan1000
    ELSE IF \/ ReMatch(P_Lt10Trailing, value) # NoMatch
            \/ value = LessThan10
            \/ value = <<"<", " ", "1", "0">>
         THEN LessThan10
    ELSE value

\* lines 1302-1305
_fix_less_than_10(value) == IF value = <<>> THEN value ELSE FixedLessThan10(Strip(value))

\* line 1469: r'(\d+\.?\d*)\s*[×]\s*10\s*(\d*)'
pattern1 == <<Plus(Digits), Opt({"."}), Star(Digits), Star(Whitespace), Lit(Times),
              Star(Whitespace), Lit("1"), Lit("0"), Star(Whitespace), Star(Digits)>>
\* line 1486: r'(\d+\.?\d*)[×]10(\d+)'
pattern2 == <<Plus(Digits), Opt({"."}), Star(Digits), Lit(Times), Lit("1"), Lit("0"),
              Plus(Digits)>>

\* lines 1476-1483 and 1493-1499: f'{prefix}{base}×10^{exponent}'
Canonical(value, base, exponent) ==
    (IF StartsWith(value, <<"<">>) THEN <<"<">>
     ELSE IF StartsWith(value, <<"U+2264">>) THEN <<"U+2264">> ELSE <<>>)
        \o base \o <<Times, "1", "0", "^">> \o exponent

\* lines 1470-1501 on the stripped value with X and x unified
NormalizedScientific(value) ==
    LET match1 == ReSearch(pattern1, value)
    IN  IF match1.start # 0
        THEN LET exponent == Group(value, match1.start, match1.ends, 10, 10)
             IN  Canonical(value, Group(value, match1.start, match1.ends, 1, 3),
                           IF exponent # <<>> THEN exponent ELSE <<"0">>)
        ELSE LET match2 == ReSearch(pattern2, value)
             IN  IF match2.start # 0
                 THEN Canonical(value, Group(value, match2.start, match2.ends, 1, 3),
                                Group(value, match2.start, match2.ends, 7, 7))
                 ELSE value

\* lines 1458-1464
_normalize_scientific(value) ==
    IF value = <<>> THEN value
    ELSE NormalizedScientific(ReplaceChar(ReplaceChar(Strip(value), "X", Times), "x", Times))

\* lines 1573-1579
clear_less_10_patterns == {
    <<"<", " ", "1", "0">>, <<"<", "1", "0">>, <<"<", " ", "1", "0", "\"">>, <<"<", "1", "0", "\"">>, <<"<", " ", "1", "0", "'">>}

\* lines 1591
ambiguous_patterns == {
    <<"4", "0">>, <<"4", "0", "U+00B0">>, <<"4", "0", "U+20AC">>, <<"C", "I", "O">>, <<"C", "I", "U+00D2">>, <<"C", "1", "0">>,
    <<"4", "1", "0">>, <<"9", "0">>}

\* lines 1565-1600
_fix_7day_ambiguous(value, original) ==
    IF Contains(value, <<"^">>) THEN value
    ELSE IF value # LessThan10 THEN value
    ELSE IF \E pattern \in clear_less_10_patterns :
                \/ Strip(original) = pattern
                \/ Strip(original) = Replace(pattern, <<" ">>, <<>>)
         THEN LessThan10
    ELSE IF \E pattern \in ambiguous_patterns : Contains(Strip(original), pattern)
         THEN LessThan100
    ELSE LessThan10

\* the day_column arguments of lines 506-509: '0' '7' '14' '28' followed by U+C77C
Day0 == <<"0", "U+C77C">>
Day7 == <<"7", "U+C77C">>
Day14 == <<"1", "4", "U+C77C">>
Day28 == <<"2", "8", "U+C77C">>

\* the detection-limit correction applied in the day-0 column as well
ColumnCorrectedEveryDay(value, original_value, day_column) ==
    IF day_column = Day7
    THEN _fix_7day_ambiguous(_normalize_scientific(_fix_less_than_10(value)),
                             original_value)
    ELSE _normalize_scientific(_fix_less_than_10(value))

\* lines 1526-1537 on the value after the merged-cell split and the noise stripping
ColumnCorrected(value, original_value, day_column) ==
    IF day_column = Day0 THEN _normalize_scientific(value)
    ELSE IF day_column = Day7
         THEN _fix_7day_ambiguous(_normalize_scientific(_fix_less_than_10(value)),
                                  original_value)
    ELSE _normalize_scientific(_fix_less_than_10(value))

\* lines 1515-1543; strain is not used
_clean_cfu_value(value, strain, day_column) ==
    IF value = <<>> THEN <<>>
    ELSE ColumnCorrected(_remove_noise(_split_merged_cells(value)), value, day_column)

----------------------------------------------------------------------------
(* Strain names: PreservationTestOCR._normalize_strain_name *)

E_coli == <<"E", ".", "c", "o", "l", "i">>
P_aeruginosa == <<"P", ".", "a", "e", "r", "u", "g", "i", "n", "o", "s", "a">>
S_aureus == <<"S", ".", "a", "u", "r", "e", "u", "s">>
C_albicans == <<"C", ".", "a", "l", "b", "i", "c", "a", "n", "s">>
A_brasiliensis == <<"A", ".", "b", "r", "a", "s", "i", "l", "i", "e", "n", "s", "i", "s">>

\* the dict strain_mapping, in the order of its entries
strain_mapping == <<
    <<<<"E", ".", "c", "o", "l", "i">>,
      E_coli>>,
    <<<<"E", "s", "c", "h", "e", "r", "i", "c", "h", "i", "a", " ", "c", "o", "l", "i">>,
      E_coli>>,
    <<<<"E", ".", " ", "c", "o", "l", "i">>,
      E_coli>>,
    <<<<"E", "s", "c", "h", "e", "r", "i", "c", "h", "i", "a">>,
      E_coli>>,
    <<<<"P", ".", "a", "e", "r", "u", "g", "i", "n", "o", "s", "a">>,
      P_aeruginosa>>,
    <<<<"P", "s", "e", "u", "d", "o", "m", "o", "n", "a", "s", " ", "a", "e", "r", "u", "g", "i", "n", "o", "s", "a">>,
      P_aeruginosa>>,
    <<<<"P", ".", " ", "a", "e", "r", "u", "g", "i", "n", "o", "s", "a">>,
      P_aeruginosa>>,
    <<<<"P", "s", "e", "u", "d", "o", "m", "o", "n", "a", "s">>,
      P_aeruginosa>>,
    <<<<"S", ".", "a", "u", "r", "e", "u", "s">>,
      S_aureus>>,
    <<<<"S", "t", "a", "p", "h", "y", "l", "o", "c", "o", "c", "c", "u", "s", " ", "a", "u", "r", "e", "u", "s">>,
      S_aureus>>,
    <<<<"S", ".", " ", "a", "u", "r", "e", "u", "s">>,
      S_aureus>>,
    <<<<"S", "t", "a", "p", "h", "y", "l", "o", "c", "o", "c", "c", "u", "s">>,
      S_aureus>>,
    <<<<"C", ".", "a", "l", "b", "i", "c", "a", "n", "s">>,
      C_albicans>>,
    <<<<"C", "a", "n", "d", "i", "d", "a", " ", "a", "l", "b", "i", "c", "a", "n", "s">>,
      C_albicans>>,
    <<<<"C", ".", " ", "a", "l", "b", "i", "c", "a", "n", "s">>,
      C_albicans>>,
    <<<<"C", "a", "n", "d", "i", "d", "a">>,
      C_albicans>>,
    <<<<"A", ".", "b", "r", "a", "s", "i", "l", "i", "e", "n", "s", "i", "s">>,
      A_brasiliensis>>,
    <<<<"A", "s", "p", "e", "r", "g", "i", "l", "l", "u", "s", " ", "b", "r", "a", "s", "i", "l", "i", "e", "n", "s", "i", "s">>,
      A_brasiliensis>>,
    <<<<"A", ".", " ", "b", "r", "a", "s", "i", "l", "i", "e", "n", "s", "i", "s">>,
      A_brasiliensis>>,
    <<<<"A", "s", "p", "e", "r", "g", "i", "l", "l", "u", "s">>,
      A_brasiliensis>>>>

RECURSIVE FirstStrain(_, _)
FirstStrain(mapping, strain) ==
    IF Len(mapping) = 0 THEN <<>>
    ELSE IF Contains(Lower(strain), Lower(mapping[1][1])) THEN mapping[1][2]
    ELSE FirstStrain(Tail(mapping), strain)

_normalize_strain_name(strain) == FirstStrain(strain_mapping, strain)

\* the dict strain_order of the post-pass (lines 547-553)
strain_order == <<E_coli, P_aeruginosa, S_aureus, C_albicans, A_brasiliensis>>

UnknownStrainKey == 999

\* strain_order.get(x['strain'], 999)
StrainKey(strain) ==
    IF \E i \in 1..Len(strain_order) : strain_order[i] = strain
    THEN (CHOOSE i \in 1..Len(strain_order) : strain_order[i] = strain) - 1
    ELSE UnknownStrainKey

----------------------------------------------------------------------------
(* Table Structure Resolver: _find_header_row and _identify_columns *)

header_keywords == <<
    <<"C", "H", "A", "L", "L", "E", "N", "G", "E", "D", " ", "O", "R", "G", "A", "N", "I", "S", "M">>,
    <<"B", "U", "L", "K", " ", "N", "A", "M", "E">>,
    <<"S", "P", "E", "C", "I", "F", "I", "C", "A", "T", "I", "O", "N">>>>

strain_keywords == <<
    <<"E", ".", "C", "O", "L", "I">>,
    <<"E", "S", "C", "H", "E", "R", "I", "C", "H", "I", "A">>,
    <<"P", ".", "A", "E", "R", "U", "G", "I", "N", "O", "S", "A">>,
    <<"P", "S", "E", "U", "D", "O", "M", "O", "N", "A", "S">>,
    <<"S", ".", "A", "U", "R", "E", "U", "S">>,
    <<"S", "T", "A", "P", "H", "Y", "L", "O", "C", "O", "C", "C", "U", "S">>,
    <<"C", ".", "A", "L", "B", "I", "C", "A", "N", "S">>,
    <<"C", "A", "N", "D", "I", "D", "A">>,
    <<"A", ".", "B", "R", "A", "S", "I", "L", "I", "E", "N", "S", "I", "S">>,
    <<"A", "S", "P", "E", "R", "G", "I", "L", "L", "U", "S">>,
    <<"U+ADE0", "U+C8FC">>,
    <<"S", "T", "R", "A", "I", "N">>>>

\* any(keyword in text for keyword in keywords)
ContainsAny(text, keywords) == \E i \in 1..Len(keywords) : Contains(text, keywords[i])

\* ' '.join(str(v) for v in row.values()).upper()
RowText(row) == Upper(JoinSpace(RowValues(row)))

\* the results of _find_header_row that are no row index
NoHeader == -1
NotFound == -2

KeywordScanRows == 5
CandidateScanRows == 15

\* lines 748-757: the first scanned row holding a structural keyword, or NotFound
RECURSIVE KeywordRow(_, _, _)
KeywordRow(tm, r, limit) ==
    IF r >= limit THEN NotFound
    ELSE IF r \in DOMAIN tm /\ ContainsAny(RowText(tm[r]), header_keywords) THEN r
    ELSE KeywordRow(tm, r + 1, limit)

\* lines 764-773: candidate_rows
RECURSIVE CandidateRows(_, _, _)
CandidateRows(tm, r, limit) ==
    IF r >= limit THEN <<>>
    ELSE (IF r \in DOMAIN tm /\ ContainsAny(RowText(tm[r]), strain_keywords)
          THEN <<r>> ELSE <<>>) \o CandidateRows(tm, r + 1, limit)

\* r'\d+\.?\d*\s*[xX]\s*10[\^]?\d+' with the multiplication sign U+00D7 in the class
P_CfuScientific == <<Plus(Digits), Opt({"."}), Star(Digits), Star(Whitespace),
                     One({"U+00D7", "x", "X"}), Star(Whitespace), Lit("1"), Lit("0"),
                     Opt({"^"}), Plus(Digits)>>
\* r'^\d{4,}$'
P_LongNumber == <<BOS, Cls(Digits, 4, -1), EOS>>

\* lines 780-793: has_cfu_pattern
HasCfuPattern(row) ==
    \E i \in 1..Len(row) :
        LET value_str == Strip(row[i].text)
        IN  \/ ReSearch(P_CfuScientific, value_str).start # 0
            \/ ReMatch(P_LongNumber, value_str) # NoMatch

\* faulty variant of _find_header_row: the strain keywords are consulted first
FindHeaderRowStrainFirst(tm) ==
    LET byKeyword  == KeywordRow(tm, 0, Min(KeywordScanRows, MatrixLen(tm)))
        candidates == CandidateRows(tm, 0, Min(CandidateScanRows, MatrixLen(tm)))
    IN  IF Len(candidates) = 0 THEN byKeyword
        ELSE IF HasCfuPattern(tm[candidates[1]]) THEN NoHeader
        ELSE candidates[1]

\* a row index, NoHeader (-1) or NotFound (None)
_find_header_row(tm) ==
    LET byKeyword  == KeywordRow(tm, 0, Min(KeywordScanRows, MatrixLen(tm)))
        candidates == CandidateRows(tm, 0, Min(CandidateScanRows, MatrixLen(tm)))
    IN  IF byKeyword # NotFound THEN byKeyword
        ELSE IF Len(candidates) = 0 THEN NotFound
        \* the loop over candidate_rows returns in its first iteration
        ELSE IF HasCfuPattern(tm[candidates[1]]) THEN NoHeader
        ELSE candidates[1]

\* dict assignment column_map[key] = col
Put(map, key, col) == (key :> col) @@ map

\* column_map.get(key, default)
Get(map, key, default) == IF key \in DOMAIN map THEN map[key] ELSE default

\* one iteration of the loop over header_data.items() (lines 832-860)
HeaderCellStep(map, cell) ==
    LET KW_STRAIN == <<"S", "T", "R", "A", "I", "N">>
        KW_ORGANISM == <<"O", "R", "G", "A", "N", "I", "S", "M">>
        KW_E_COLI == <<"E", ".", "C", "O", "L", "I">>
        KW_GYUNJU == <<"U+ADE0", "U+C8FC">>
        KW_SPECIFICATION == <<"S", "P", "E", "C", "I", "F", "I", "C", "A", "T", "I", "O", "N">>
        KW_SPEC == <<"S", "P", "E", "C">>
        KW_IL == <<"U+C77C">>
        KW_DAY == <<"D", "A", "Y">>
        KW_CFU == <<"C", "F", "U">>
        KW_JEOPJONG == <<"U+C811", "U+C885">>
        KW_PANJEONG == <<"U+D310", "U+C815">>
        KW_JUDGMENT == <<"J", "U", "D", "G", "M", "E", "N", "T">>
        KW_CHOEJONG == <<"U+CD5C", "U+C885">>
        KW_FINAL == <<"F", "I", "N", "A", "L">>
        \* ('<day word>' in value or 'DAY' in value_upper or 'CFU' in value_upper)
        IsDayHeader(v, v_upper) ==
            \/ Contains(v, KW_IL)
            \/ Contains(v_upper, KW_DAY)
            \/ Contains(v_upper, KW_CFU)
        value == cell.text
        value_upper == Strip(Upper(value))
        m1 == IF \/ Contains(value, KW_GYUNJU) \/ Contains(value_upper, KW_STRAIN)
                 \/ Contains(value_upper, KW_E_COLI) \/ Contains(value_upper, KW_ORGANISM)
              THEN Put(map, "strain_col", cell.col) ELSE map
        m2 == IF Contains(value_upper, KW_SPECIFICATION) \/ Contains(value_upper, KW_SPEC)
              THEN Put(m1, "specification_col", cell.col) ELSE m1
        m3 == IF Contains(value, <<"0">>)
                 /\ (IsDayHeader(value, value_upper) \/ Contains(value, KW_JEOPJONG))
              THEN Put(m2, "cfu_0_col", cell.col)
              ELSE IF Contains(value, <<"7">>) /\ IsDayHeader(value, value_upper)
              THEN Put(m2, "cfu_7_col", cell.col)
              ELSE IF Contains(value, <<"1", "4">>) /\ IsDayHeader(value, value_upper)
              THEN Put(m2, "cfu_14_col", cell.col)
              ELSE IF Contains(value, <<"2", "8">>) /\ IsDayHeader(value, value_upper)
              THEN Put(m2, "cfu_28_col", cell.col)
              ELSE m2
    IN  IF Contains(value, KW_PANJEONG) \/ Contains(value_upper, KW_JUDGMENT)
        THEN IF Contains(value, KW_CHOEJONG) \/ Contains(value_upper, KW_FINAL)
             THEN Put(m3, "final_judgment_col", cell.col)
             ELSE IF "judgment_col" \notin DOMAIN m3
             THEN Put(m3, "judgment_col", cell.col)
             ELSE m3
        ELSE m3

RECURSIVE HeaderCells(_, _)
HeaderCells(map, cells) ==
    IF Len(cells) = 0 THEN map
    ELSE HeaderCells(HeaderCellStep(map, cells[1]), Tail(cells))

\* r'^(<=[0-9]+[deg cC]?|[0-9]{1,2}[deg cC]?|SI)$' with U+2264 and U+00B0
IsSpecificationValue(value) ==
    \/ ReMatch(<<BOS, Lit("U+2264"), Plus(Digits), Opt({"U+00B0", "c", "C"}), EOS>>,
               value) # NoMatch
    \/ ReMatch(<<BOS, Cls(Digits, 1, 2), Opt({"U+00B0", "c", "C"}), EOS>>, value) # NoMatch
    \/ value = <<"S", "I">>

SpecSampleRows == 5
SpecSampleHits == 3

\* the rows of the matrix in the order of sorted(table_matrix.keys())
RECURSIVE SortedRows(_)
SortedRows(rows) ==
    IF rows = {} THEN <<>>
    ELSE LET r == CHOOSE r \in rows : \A q \in rows : r <= q
         IN  <<r>> \o SortedRows(rows \ {r})

\* lines 877-892: spec_pattern_count
RECURSIVE SpecPatternCount(_, _, _, _, _)
SpecPatternCount(tm, rows, hdr, next_col, checked_rows) ==
    IF Len(rows) = 0 THEN 0
    ELSE IF rows[1] <= hdr THEN SpecPatternCount(tm, Tail(rows), hdr, next_col, checked_rows)
    ELSE IF checked_rows >= SpecSampleRows THEN 0
    ELSE IF RowHas(tm[rows[1]], next_col)
    THEN (IF IsSpecificationValue(Strip(RowGet(tm[rows[1]], next_col, <<>>))) THEN 1 ELSE 0)
           + SpecPatternCount(tm, Tail(rows), hdr, next_col, checked_rows + 1)
    ELSE SpecPatternCount(tm, Tail(rows), hdr, next_col, checked_rows)

\* default of column_map.get(..., -1)
NoCol == -1

\* lines 862-921: the inferred columns
InferColumns(tm, hdr, map) ==
    LET strain_col == map["strain_col"]
        spec0 == Get(map, "specification_col", NoCol)
        next_col == strain_col + 1
        inferred == spec0 = NoCol
                    /\ SpecPatternCount(tm, SortedRows(DOMAIN tm), hdr, next_col, 0)
                         >= SpecSampleHits
        spec_col == IF inferred THEN next_col ELSE spec0
        m0 == IF inferred THEN Put(map, "specification_col", spec_col) ELSE map
        cfu_start_col == IF spec_col > strain_col THEN spec_col + 1 ELSE strain_col + 1
        Default(m, key, col) == IF key \in DOMAIN m THEN m ELSE Put(m, key, col)
    IN  Default(Default(Default(Default(Default(Default(m0,
            "cfu_0_col", cfu_start_col),
            "cfu_7_col", cfu_start_col + 1),
            "cfu_14_col", cfu_start_col + 2),
            "cfu_28_col", cfu_start_col + 3),
            "judgment_col", cfu_start_col + 4),
            "final_judgment_col", cfu_start_col + 5)

_identify_columns(tm, hdr) ==
    IF hdr \notin DOMAIN tm THEN EmptyDict
    ELSE LET map == HeaderCells(EmptyDict, tm[hdr])
         IN  IF "strain_col" \in DOMAIN map THEN InferColumns(tm, hdr, map) ELSE map

----------------------------------------------------------------------------
(* Record Assembler: PreservationTestOCR._extract_strain_data *)

\* the judgment words of the report: pass (U+C801 U+D569) and fail (U+BD80 U+C801 U+D569)
JudgmentPass == <<"U+C801", "U+D569">>
JudgmentFail == <<"U+BD80", "U+C801", "U+D569">>

\* lines 1602-1613
_extract_judgment(value) ==
    IF value = <<>> THEN JudgmentPass
    ELSE LET v == Upper(Strip(value))
         IN  IF \/ Contains(v, <<"X">>) \/ Contains(v, <<"U+00D7">>)
                \/ Contains(v, <<"V">>) \/ Contains(v, JudgmentFail)
             THEN JudgmentFail ELSE JudgmentPass

bulk_name_col == 0

\* lines 449 and 462: the first data row
DataStartRow(header) == IF header = NoHeader THEN 0 ELSE header + 1

\* faulty variant of UpdatedField: the extracted value always replaces the field
UpdatedFieldOverwrite(current, extracted) == extracted

\* one field of the identifier context after a bulk name was read (lines 486-491)
UpdatedField(current, extracted) == IF extracted # <<>> THEN extracted ELSE current

\* lines 480-491: the identifier context after the row, as <<test, prescription>>
ContextAfter(row_data, cur_test, cur_prescription) ==
    LET bulk_name == Strip(RowGet(row_data, bulk_name_col, <<>>))
        info == _extract_test_info_from_row(bulk_name)
    IN  IF bulk_name # <<>>
        THEN <<UpdatedField(cur_test, info[1]), UpdatedField(cur_prescription, info[2])>>
        ELSE <<cur_test, cur_prescription>>

\* lines 494-503: the canonical strain of the row, <<>> when the row is skipped
StrainOf(row_data, map) ==
    IF "strain_col" \notin DOMAIN map \/ ~RowHas(row_data, map["strain_col"]) THEN <<>>
    ELSE _normalize_strain_name(Strip(RowGet(row_data, map["strain_col"], <<>>)))

\* lines 506-509
CfuOf(row_data, map, key, strain, day_column) ==
    _clean_cfu_value(RowGet(row_data, Get(map, key, NoCol), <<>>), strain, day_column)

\* lines 511-525
JudgmentOf(row_data, map) ==
    _extract_judgment(RowGet(row_data, Get(map, "judgment_col", NoCol), <<>>))

\* faulty variant of FinalJudgmentOf: an empty final-judgment cell is judged like an
\* empty judgment cell
FinalJudgmentDefaulted(row_data, map) ==
    LET final_judgment_col == Get(map, "final_judgment_col", NoCol)
    IN  IF final_judgment_col = NoCol THEN <<>>
        ELSE _extract_judgment(RowGet(row_data, final_judgment_col, <<>>))

\* lines 514-525
FinalJudgmentOf(row_data, map) ==
    LET final_judgment_col == Get(map, "final_judgment_col", NoCol)
        final_judgment_value == RowGet(row_data, final_judgment_col, <<>>)
    IN  IF final_judgment_col = NoCol \/ final_judgment_value = <<>> THEN <<>>
        ELSE _extract_judgment(final_judgment_value)

\* lines 527-537; `row` is a history field (the row the record was made from),
\* which no operation reads
RecordOf(row, row_data, map, test, prescription, strain) ==
    [test_number         |-> test,
     prescription_number |-> prescription,
     strain              |-> strain,
     cfu_0day            |-> CfuOf(row_data, map, "cfu_0_col", strain, Day0),
     cfu_7day            |-> CfuOf(row_data, map, "cfu_7_col", strain, Day7),
     cfu_14day           |-> CfuOf(row_data, map, "cfu_14_col", strain, Day14),
     cfu_28day           |-> CfuOf(row_data, map, "cfu_28_col", strain, Day28),
     judgment            |-> JudgmentOf(row_data, map),
     final_judgment      |-> FinalJudgmentOf(row_data, map),
     row                 |-> row]

\* faulty variant of InsertByStrain: a record goes before the records of its own
\* strain (the sort is not stable)
RECURSIVE InsertByStrainUnstable(_, _)
InsertByStrainUnstable(sorted, rec) ==
    IF Len(sorted) = 0 THEN <<rec>>
    ELSE IF StrainKey(sorted[Len(sorted)].strain) < StrainKey(rec.strain)
    THEN Append(sorted, rec)
    ELSE Append(InsertByStrainUnstable(SubSeq(sorted, 1, Len(sorted) - 1), rec),
                sorted[Len(sorted)])

\* list.sort(key=lambda x: strain_order.get(x['strain'], 999)): stable
RECURSIVE InsertByStrain(_, _)
InsertByStrain(sorted, rec) ==
    IF Len(sorted) = 0 THEN <<rec>>
    ELSE IF StrainKey(sorted[Len(sorted)].strain) <= StrainKey(rec.strain)
    THEN Append(sorted, rec)
    ELSE Append(InsertByStrain(SubSeq(sorted, 1, Len(sorted) - 1), rec), sorted[Len(sorted)])

RECURSIVE SortByStrain(_)
SortByStrain(group) ==
    IF Len(group) = 0 THEN <<>>
    ELSE InsertByStrain(SortByStrain(SubSeq(group, 1, Len(group) - 1)), group[Len(group)])

\* faulty variant of WithGroup: the output so far is sorted together with the group
WithGroupMerged(sorted, group) == SortByStrain(sorted \o group)

\* lines 563-565 and 574-576: the closed group, sorted, is appended to sorted_data
WithGroup(sorted, group) == IF group # <<>> THEN sorted \o SortByStrain(group) ELSE sorted

\* Python's None, as the value of current_test_number before the first record
None == <<"None">>

----------------------------------------------------------------------------
(* process_preservation_page: the result dict *)

\* line 1660
InitialResult == [success |-> FALSE, data |-> <<>>, date_info |-> EmptyDict,
                  message |-> <<>>]

\* lines 1703-1705: "data extraction failed"
FailedResult == [success |-> FALSE, data |-> <<>>, date_info |-> EmptyDict,
                 message |-> <<"extraction failed">>]

\* lines 1731-1734
SuccessResult(data, dates) == [success |-> TRUE, data |-> data, date_info |-> dates,
                               message |-> <<"extracted", Len(data)>>]

\* lines 1701-1738, with no progress workbook given (excel_path = None)
PageResult(data, dates) ==
    IF data = <<>> THEN FailedResult ELSE SuccessResult(data, dates)

----------------------------------------------------------------------------
(* The document-parse backend: DataCleaner of src/backend.py.  A table row *)
(* is the sequence of its td cells; a cell has its text and whether it     *)
(* carries a non-empty rowspan attribute.                                  *)

AtoL == {"A", "B", "C", "D", "E", "F", "G", "H", "I", "J", "K", "L"}

\* lines 283-298: a match of 8 characters gets an I for its sixth character,
\* a match of another length is dropped
RECURSIVE OcrCorrected(_)
OcrCorrected(matches) ==
    IF Len(matches) = 0 THEN <<>>
    ELSE (IF Len(matches[1]) \in {7, 8}
          THEN <<SubSeq(matches[1], 1, 5) \o <<"I">> \o SubSeq(matches[1], 7, Len(matches[1]))>>
          ELSE <<>>) \o OcrCorrected(Tail(matches))

\* lines 261-313, text being the bulk name after lines 255-258; None for a number
\* that was not found
NumbersIn(text) ==
    LET all_prescription_matches == FindAllTexts(<<
            \* r'\b[A-Z]{2,4}\d{4,5}[A-Z]?-[A-Z]{1,5}\d?\b'
            <<WB, L(2, 4), D(4, 5), L(0, 1), Dash, L(1, 5), D(0, 1), WB>>,
            \* r'\b[A-Z]{3}\d{5}-[A-Z]{2,4}\b'
            <<WB, L(3, 3), D(5, 5), Dash, L(2, 4), WB>>,
            \* r'\b[A-Z]{2,4}\d{3,6}-[A-Z]{1,5}\b'
            <<WB, L(2, 4), D(3, 6), Dash, L(1, 5), WB>>,
            \* r'\b[A-Z]{2,5}\d{4}-[A-Z]{1,3}\d{0,2}\b'
            <<WB, L(2, 5), D(4, 4), Dash, L(1, 3), D(0, 2), WB>>,
            \* r'\b[A-Z]{2,4}\d{4,5}[A-Z]?-\s*[A-Z]{1,5}\d?\b'
            <<WB, L(2, 4), D(4, 5), L(0, 1), Dash, Star(Whitespace), L(1, 5), D(0, 1), WB>>,
            \* r'\b[A-Z]{2,4}\d{3,5}-[A-Z]{1,4}\d{1,2}\b'
            <<WB, L(2, 4), D(3, 5), Dash, L(1, 4), D(1, 2), WB>>>>, text)
        \* r'\b(\d{2}[A-L]\d{2}I\d{2,3})\b'
        correct_matches == FindAllTexts(
            <<<<WB, D(2, 2), One(AtoL), D(2, 2), Lit("I"), D(2, 3), WB>>>>, text)
        ocr_error_matches == FindAllTexts(<<
            \* r'\b(\d{2}[A-L]\d{2}1\d{2,3})\b'
            <<WB, D(2, 2), One(AtoL), D(2, 2), Lit("1"), D(2, 3), WB>>,
            \* r'\b(\d{2}[A-L]\d{5,6})\b'
            <<WB, D(2, 2), One(AtoL), D(5, 6), WB>>>>, text)
        \* r'(\d{2})([A-L])(\d)\s+(\d)(\d{2,3})'
        raw_matches == FindAllFrom(
            <<D(2, 2), One(AtoL), D(1, 1), Plus(Whitespace), D(1, 1), D(2, 3)>>, text, 1)
        converted == [k \in 1..Len(raw_matches) |->
            LET m == raw_matches[k]
            IN  Group(text, m.start, m.ends, 1, 3) \o Group(text, m.start, m.ends, 5, 5)
                  \o <<"I">> \o SubSeq(Group(text, m.start, m.ends, 6, 6), 1, 2)]
        all_test_matches == correct_matches \o OcrCorrected(ocr_error_matches) \o converted
    IN  <<IF all_test_matches # <<>> THEN all_test_matches[1] ELSE None,
          IF all_prescription_matches # <<>> THEN all_prescription_matches[1] ELSE None>>

\* lines 240-317
extract_numbers(bulk_name) ==
    NumbersIn(ReSub(<<Plus(Whitespace)>>, <<" ">>,
                    ReSub(<<Dash, Plus(Whitespace)>>, <<"-">>,
                          ReplaceChar(Upper(bulk_name), "!", "I"))))

\* line 31
STRAINS == <<E_coli, P_aeruginosa, S_aureus, C_albicans, A_brasiliensis>>

\* lines 320-338: an entry equal to the name first, then an entry contained in it
normalize_strain_name(strain) ==
    LET strain_mapping_ == <<
    <<<<"E", ".", "c", "o", "l", "i">>,
      E_coli>>,
    <<<<"E", "s", "c", "h", "e", "r", "i", "c", "h", "i", "a", " ", "c", "o", "l", "i">>,
      E_coli>>,
    <<<<"E", ".", " ", "c", "o", "l", "i">>,
      E_coli>>,
    <<<<"P", ".", "a", "e", "r", "u", "g", "i", "n", "o", "s", "a">>,
      P_aeruginosa>>,
    <<<<"P", "s", "e", "u", "d", "o", "m", "o", "n", "a", "s", " ", "a", "e", "r", "u", "g", "i", "n", "o", "s", "a">>,
      P_aeruginosa>>,
    <<<<"P", ".", " ", "a", "e", "r", "u", "g", "i", "n", "o", "s", "a">>,
      P_aeruginosa>>,
    <<<<"S", ".", "a", "u", "r", "e", "u", "s">>,
      S_aureus>>,
    <<<<"S", "t", "a", "p", "h", "y", "l", "o", "c", "o", "c", "c", "u", "s", " ", "a", "u", "r", "e", "u", "s">>,
      S_aureus>>,
    <<<<"S", ".", " ", "a", "u", "r", "e", "u", "s">>,
      S_aureus>>,
    <<<<"C", ".", "a", "l", "b", "i", "c", "a", "n", "s">>,
      C_albicans>>,
    <<<<"C", "a", "n", "d", "i", "d", "a", " ", "a", "l", "b", "i", "c", "a", "n", "s">>,
      C_albicans>>,
    <<<<"C", ".", " ", "a", "l", "b", "i", "c", "a", "n", "s">>,
      C_albicans>>,
    <<<<"A", ".", "b", "r", "a", "s", "i", "l", "i", "e", "n", "s", "i", "s">>,
      A_brasiliensis>>,
    <<<<"A", "s", "p", "e", "r", "g", "i", "l", "l", "u", "s", " ", "b", "r", "a", "s", "i", "l", "i", "e", "n", "s", "i", "s">>,
      A_brasiliensis>>,
    <<<<"A", ".", " ", "b", "r", "a", "s", "i", "l", "i", "e", "n", "s", "i", "s">>,
      A_brasiliensis>>>>
        equal == SelectSeq(strain_mapping_, LAMBDA e : Lower(e[1]) = Lower(strain))
        inside == SelectSeq(strain_mapping_, LAMBDA e : Contains(Lower(strain), Lower(e[1])))
    IN  IF equal # <<>> THEN equal[1][2]
        ELSE IF inside # <<>> THEN inside[1][2]
        ELSE strain

\* the characters of this model's texts that lie in the ranges of the class
\* [U+3041-U+3093 U+30A1-U+30F3 U+4E00-U+9FAF] of line 349
KanaKanji == {"U+304F", "U+30AB", "U+4E00"}

\* lines 354-405, value being the cell text after lines 349-352; day_column is 0, 7,
\* 14 or 28
CleanedCfu(value, original_value, strain, day_column) ==
    LET \* r'([0-9.]+)\s*[xX]\s*10\s*\^?([0-9]+)' with the multiplication sign in the class
        exp_match == ReMatch(<<Plus(Digits \cup {"."}), Star(Whitespace),
                               One({"U+00D7", "x", "X"}), Star(Whitespace), Lit("1"), Lit("0"),
                               Star(Whitespace), Opt({"^"}), Plus(Digits)>>, value)
        \* r'<\s*10\s*\^?\s*([0-9]+)'
        lt_pow == ReSearch(<<Lit("<"), Star(Whitespace), Lit("1"), Lit("0"), Star(Whitespace),
                             Opt({"^"}), Star(Whitespace), Plus(Digits)>>, value)
        \* r'<\s*([0-9]+)'
        lt_num == ReSearch(<<Lit("<"), Star(Whitespace), Plus(Digits)>>, value)
        \* r'U+2264\s*([0-9]+)'
        le_num == ReSearch(<<Lit("U+2264"), Star(Whitespace), Plus(Digits)>>, value)
        is_target_strain == strain # <<>> /\ \E k \in 1..4 : Contains(strain, STRAINS[k])
        \* r'^U+2264\d+[U+00B0 U+2070]?$'
        should_preserve == ReMatch(<<BOS, Lit("U+2264"), Plus(Digits),
                                     Opt({"U+00B0", "U+2070"}), EOS>>, value) # NoMatch
        has_clear_power_signal ==
            /\ Contains(original_value, <<"2">>)
            /\ \E c \in {"^", "U+00B2", "U+2070", "U+00B9", "U+00B3"} :
                  Contains(original_value, <<c>>)
    IN  IF (\E c \in {"U+00D7", "x", "X"} : Contains(value, <<c>>)) /\ exp_match # NoMatch
        THEN Group(value, 1, exp_match, 1, 1) \o <<"U+00D7", "1", "0", "^">>
               \o Group(value, 1, exp_match, 9, 9)
        ELSE IF Contains(value, <<"<">>)
        THEN IF lt_pow.start # 0
             THEN <<"<", "1", "0", "^">> \o Group(value, lt_pow.start, lt_pow.ends, 8, 8)
             ELSE IF lt_num.start # 0
             THEN <<"<">> \o Group(value, lt_num.start, lt_num.ends, 3, 3)
             ELSE <<"<", "1", "0">>
        ELSE IF Contains(value, <<"U+2264">>) /\ le_num.start # 0
        THEN <<"U+2264">> \o Group(value, le_num.start, le_num.ends, 3, 3)
        ELSE IF day_column \in {7, 14, 28} /\ is_target_strain
        THEN IF should_preserve \/ Len(original_value) >= 6 THEN value
             ELSE IF day_column = 7 \/ (has_clear_power_signal /\ day_column # 28)
             THEN <<"<", "1", "0", "^", "2">>
             ELSE <<"<", "1", "0">>
        ELSE value

\* lines 341-405
clean_cfu_value(original_value, strain, day_column) ==
    LET v1 == ReSub(<<Plus(KanaKanji)>>, <<>>, original_value)
        v2 == ReplaceChar(ReplaceChar(ReplaceChar(v1, "U+304F", "<"), "C", "<"), "O", "0")
        v3 == Replace(Replace(Replace(v2, <<"C", "o">>, <<"0">>),
                              <<"C", "I", "O">>, <<"<", "1", "0">>),
                      <<"C", "1", "0">>, <<"<", "1", "0">>)
    IN  IF original_value = <<>> THEN <<>>
        ELSE CleanedCfu(Strip(v3), original_value, strain, day_column)

\* lines 407-431: get_judgment_value and get_final_judgment_value; index is the
\* position of the cell counted from 0
get_judgment_value(cells, index) ==
    IF Len(cells) > index
          /\ \E c \in {"X", "U+00D7", "v", "V"} : Contains(Strip(cells[index + 1].text), <<c>>)
    THEN JudgmentFail ELSE JudgmentPass

\* x or ''
OrEmpty(x) == IF x = None THEN <<>> ELSE x

\* cells[index].text.strip() if len(cells) > index else ""
CellText(cells, index) == IF Len(cells) > index THEN Strip(cells[index + 1].text) ELSE <<>>

\* lines 187-200: the row opens a bulk-name block
IsBulkRow(cells) == cells[1].rowspan /\ Strip(cells[1].text) # <<>>

\* line 189: both fields of the context are assigned what extract_numbers returns
NumbersAfter(cells, test_number, prescription_number) ==
    IF IsBulkRow(cells) THEN extract_numbers(Strip(cells[1].text))
    ELSE <<test_number, prescription_number>>

\* lines 210-232
RowData(cells, numbers, first, strain_normalized) ==
    [test_number         |-> OrEmpty(numbers[1]),
     prescription_number |-> OrEmpty(numbers[2]),
     strain              |-> strain_normalized,
     cfu_0day  |-> clean_cfu_value(CellText(cells, first), strain_normalized, 0),
     cfu_7day  |-> clean_cfu_value(CellText(cells, first + 1), strain_normalized, 7),
     cfu_14day |-> clean_cfu_value(CellText(cells, first + 2), strain_normalized, 14),
     cfu_28day |-> clean_cfu_value(CellText(cells, first + 3), strain_normalized, 28),
     judgment       |-> get_judgment_value(cells, first + 4),
     final_judgment |-> get_judgment_value(cells, first + 5)]

\* lines 234-235: the record is kept if one of its CFU values is not blank
KeptIfCfu(row_data) ==
    IF \E v \in {row_data.cfu_0day, row_data.cfu_7day, row_data.cfu_14day,
                  row_data.cfu_28day} : Strip(v) # <<>>
    THEN <<row_data>>
    ELSE <<>>

\* lines 187-235: the records the row adds to table_data (one or none)
RowRecords(cells, numbers) ==
    LET first == IF IsBulkRow(cells) THEN 3 ELSE 2
        strain == CellText(cells, first - 2)
        valid_strains == STRAINS \o <<
            <<"E", "s", "c", "h", "e", "r", "i", "c", "h", "i", "a">>,
            <<"P", "s", "e", "u", "d", "o", "m", "o", "n", "a", "s">>,
            <<"S", "t", "a", "p", "h", "y", "l", "o", "c", "o", "c", "c", "u", "s">>,
            <<"C", "a", "n", "d", "i", "d", "a">>,
            <<"A", "s", "p", "e", "r", "g", "i", "l", "l", "u", "s">>>>
    IN  IF strain = <<>> \/ ~\E k \in 1..Len(valid_strains) : Contains(strain, valid_strains[k])
        THEN <<>>
        ELSE KeptIfCfu(RowData(cells, numbers, first, normalize_strain_name(strain)))

----------------------------------------------------------------------------
(* Sample pages *)

HeaderRowSample == <<Cell(0, <<"B", "u", "l", "k", " ", "N", "a", "m", "e">>), Cell(1, <<"S", "t", "r", "a", "i", "n">>), Cell(2, <<"0", " ", "D", "a", "y">>), Cell(3, <<"7", " ", "D", "a", "y">>), Cell(4, <<"1", "4", " ", "D", "a", "y">>), Cell(5, <<"2", "8", " ", "D", "a", "y">>), Cell(6, <<"J", "u", "d", "g", "m", "e", "n", "t">>)>>
DateRowSample == <<Cell(2, <<"0", "1", " ", "1", "5">>), Cell(3, <<"0", "1", " ", "2", "2">>), Cell(4, <<"0", "1", " ", "2", "9">>), Cell(5, <<"0", "2", " ", "1", "2">>)>>
R_BulkBoth_Ecoli == <<Cell(0, <<"2", "5", "E", "1", "5", "I", "1", "4", " ", "G", "B", "1", "9", "1", "9", "-", "Z", "M", "B">>), Cell(1, <<"E", ".", "c", "o", "l", "i">>), Cell(2, <<"5", ".", "5", "X", "1", "0", "5">>), Cell(3, <<"<", "1", "0">>), Cell(4, <<"<", "1", "0">>), Cell(5, <<"<", "1", "0">>), Cell(6, <<"O">>)>>
R_Saureus == <<Cell(0, <<>>), Cell(1, <<"S", ".", " ", "a", "u", "r", "e", "u", "s">>), Cell(2, <<"6", ".", "8", "U+00D7", "1", "0", "5">>), Cell(3, <<"C", "I", "O">>), Cell(4, <<"<", "1", "0">>), Cell(5, <<"<", "1", "0">>)>>
R_Calbicans_NoCfu == <<Cell(1, <<"C", "a", "n", "d", "i", "d", "a", " ", "a", "l", "b", "i", "c", "a", "n", "s">>)>>
R_BulkTest_Paeruginosa == <<Cell(0, <<"2", "5", "A", "1", "5", "1", "1", "4">>), Cell(1, <<"P", ".", "a", "e", "r", "u", "g", "i", "n", "o", "s", "a">>), Cell(2, <<"1", ".", "0", "x", "1", "0", "^", "5">>), Cell(6, <<"X">>)>>
R_BulkPrescription == <<Cell(0, <<"A", "B", "1", "2", "3", "4", "-", "X", "Y">>), Cell(1, <<"w", "a", "t", "e", "r">>), Cell(2, <<"1", "2">>)>>
R_BulkUnmatched_Ecoli == <<Cell(0, <<"L", "O", "T", " ", "7">>), Cell(1, <<"E", ".", "c", "o", "l", "i">>), Cell(2, <<"2", ".", "1", "X", "1", "0", " ", "6">>)>>
R_BulkOnly == <<Cell(0, <<"2", "5", "E", "1", "5", "I", "1", "4", " ", "G", "B", "1", "9", "1", "9", "-", "Z", "M", "B">>)>>
FiveStrainRows == <<
    <<Cell(1, <<"E", ".", "c", "o", "l", "i">>), Cell(2, <<"1", ".", "0", "x", "1", "0", "^", "5">>)>>,
    <<Cell(1, <<"P", "s", "e", "u", "d", "o", "m", "o", "n", "a", "s", " ", "a", "e", "r", "u", "g", "i", "n", "o", "s", "a">>), Cell(2, <<"1", ".", "0", "x", "1", "0", "^", "5">>)>>,
    <<Cell(1, <<"S", ".", "a", "u", "r", "e", "u", "s">>), Cell(2, <<"1", ".", "0", "x", "1", "0", "^", "5">>)>>,
    <<Cell(1, <<"C", ".", " ", "a", "l", "b", "i", "c", "a", "n", "s">>), Cell(2, <<"1", ".", "0", "x", "1", "0", "^", "5">>)>>,
    <<Cell(1, <<"A", "s", "p", "e", "r", "g", "i", "l", "l", "u", "s">>), Cell(2, <<"1", ".", "0", "x", "1", "0", "^", "5">>)>>>>

DataRowSamples == {R_BulkBoth_Ecoli, R_Saureus, R_Calbicans_NoCfu, R_BulkTest_Paeruginosa,
                   R_BulkPrescription}

MaxDataRows == 3

\* the sequences of 1..MaxDataRows sample rows
DataRowSeqs == UNION {[1..n -> DataRowSamples] : n \in 1..MaxDataRows}

\* the shorter of these sequences
ShortRowSeqs == {rows \in DataRowSeqs : Len(rows) < MaxDataRows}

\* rows at the indices 0, 1, 2, ...
MatrixOf(rows) == [r \in 0..(Len(rows) - 1) |-> rows[r + 1]]

\* the same rows with the index after the first `keep` rows left out: a table in
\* which no cell starts in that row
GappedMatrixOf(rows, keep) ==
    [r \in (0..Len(rows)) \ {keep} |-> IF r < keep THEN rows[r + 1] ELSE rows[r]]

Permutations5 == {p \in [1..5 -> 1..5] : \A i, j \in 1..5 : i # j => p[i] # p[j]}

\* dates, header, one bulk-name row and the five strains in any order
FiveStrainPages ==
    {MatrixOf(<<DateRowSample, HeaderRowSample, R_BulkOnly>>
                \o [i \in 1..5 |-> FiveStrainRows[p[i]]]) : p \in Permutations5}

\* a header row and MaxDataRows + 1 rows that each name a strain, under two test
\* numbers and an unmatched bulk name
RunPages ==
    {MatrixOf(<<HeaderRowSample>> \o rows) :
        rows \in [1..(MaxDataRows + 1) ->
                     {R_BulkBoth_Ecoli, R_BulkTest_Paeruginosa, R_BulkUnmatched_Ecoli}]}

PageMatrices ==
    \* a header row and data rows
    {MatrixOf(<<HeaderRowSample>> \o rows) : rows \in DataRowSeqs}
    \* data rows only
    \cup {MatrixOf(rows) : rows \in ShortRowSeqs}
    \* a header row and data rows, no row at the index before the last row
    \cup {GappedMatrixOf(<<HeaderRowSample>> \o rows, Len(rows)) : rows \in ShortRowSeqs}
    \cup FiveStrainPages
    \cup RunPages

----------------------------------------------------------------------------
(* Sample tables of the document-parse backend *)

TD(t, span) == [text |-> t, rowspan |-> span]

LegacyHeaderRows == <<<<TD(<<"B", "u", "l", "k", " ", "N", "a", "m", "e">>, FALSE), TD(<<"S", "t", "r", "a", "i", "n">>, FALSE), TD(<<"S", "p", "e", "c">>, FALSE), TD(<<"0">>, FALSE), TD(<<"7">>, FALSE), TD(<<"1", "4">>, FALSE), TD(<<"2", "8">>, FALSE)>>,
                      <<TD(<<"0", "1", "/", "1", "5">>, FALSE), TD(<<"0", "1", "/", "2", "2">>, FALSE)>>>>
L_BulkBoth_Ecoli == <<TD(<<"2", "5", "E", "1", "5", "I", "1", "4", " ", "G", "B", "1", "9", "1", "9", "-", "Z", "M", "B">>, TRUE), TD(<<"E", ".", "c", "o", "l", "i">>, FALSE), TD(<<"N", "M", "T">>, FALSE), TD(<<"5", ".", "5", "X", "1", "0", "5">>, FALSE), TD(<<"<", "1", "0">>, FALSE), TD(<<"<", "1", "0">>, FALSE), TD(<<"<", "1", "0">>, FALSE), TD(<<"O">>, FALSE)>>
L_Saureus == <<TD(<<"S", ".", "a", "u", "r", "e", "u", "s">>, FALSE), TD(<<"N", "M", "T">>, FALSE), TD(<<"6", ".", "8", "U+00D7", "1", "0", "5">>, FALSE), TD(<<"C", "I", "O">>, FALSE), TD(<<"<", "1", "0">>, FALSE), TD(<<"<", "1", "0", "2">>, FALSE), TD(<<"X">>, FALSE), TD(<<"O">>, FALSE)>>
L_BulkUnmatched_Paeruginosa == <<TD(<<"L", "O", "T", " ", "7">>, TRUE), TD(<<"P", "s", "e", "u", "d", "o", "m", "o", "n", "a", "s", " ", "a", "e", "r", "u", "g", "i", "n", "o", "s", "a">>, FALSE), TD(<<>>, FALSE), TD(<<"1", ".", "0", "x", "1", "0", "^", "5">>, FALSE), TD(<<"4", "0">>, FALSE)>>
L_BulkTest_Calbicans == <<TD(<<"2", "5", "A", "1", "5", "1", "1", "4">>, TRUE), TD(<<"C", ".", "a", "l", "b", "i", "c", "a", "n", "s">>, FALSE), TD(<<>>, FALSE), TD(<<"2", ".", "1", "X", "1", "0", " ", "6">>, FALSE), TD(<<"U+2264", "1", "0">>, FALSE)>>
L_BulkPrescription_Abrasiliensis == <<TD(<<"A", "B", "1", "2", "3", "4", "-", "X", "Y">>, TRUE), TD(<<"A", ".", "b", "r", "a", "s", "i", "l", "i", "e", "n", "s", "i", "s">>, FALSE), TD(<<>>, FALSE), TD(<<"3", ".", "0", "x", "1", "0", "^", "5">>, FALSE), TD(<<"4", "1", "0", "2">>, FALSE)>>
L_Ecoli_NoCfu == <<TD(<<"E", ".", "c", "o", "l", "i">>, FALSE), TD(<<"N", "M", "T">>, FALSE)>>
L_OneCell == <<TD(<<"2", "5", "A", "1", "5", "I", "1", "4">>, FALSE)>>

LegacyRowSamples == {L_BulkBoth_Ecoli, L_Saureus, L_BulkUnmatched_Paeruginosa, L_BulkTest_Calbicans, L_BulkPrescription_Abrasiliensis, L_Ecoli_NoCfu, L_OneCell}

\* two heading rows and fewer than MaxDataRows sample rows
LegacyTables == {LegacyHeaderRows \o rows :
                    rows \in UNION {[1..n -> LegacyRowSamples] : n \in 1..(MaxDataRows - 1)}}

----------------------------------------------------------------------------
(* The page pipeline: extract_preservation_test_table (lines 283-292),     *)
(* _extract_strain_data and process_preservation_page (lines 1699-1738)    *)

\* the document-parse backend when it is not running; i is the position of the
\* row at hand, the first two rows being skipped (line 181)
LegacyIdle == [pc |-> "idle", rows |-> <<>>, i |-> 3, current_test_number |-> None,
               current_prescription_number |-> None, table_data |-> <<>>]

\* no component is called on its own
NoCall == [op |-> "none"]

\* no second invocation
NoInvocation == [pc |-> "none"]

\* a single invocation, no further page
OnePage == [pending |-> <<>>, returned |-> <<>>, other |-> NoInvocation]

InitPipeline ==
    /\ pc = "date"
    /\ date_info = EmptyDict
    /\ header_row = NotFound
    /\ column_map = EmptyDict
    /\ row_idx = 0
    /\ current_test = <<>>
    /\ current_prescription = <<>>
    /\ test_data = <<>>
    /\ sort_idx = 1
    /\ current_test_number = None
    /\ test_group = <<>>
    /\ sorted_data = <<>>
    /\ page_result = InitialResult
    /\ legacy = LegacyIdle
    /\ call = NoCall
    /\ pages = OnePage

\* DataCleaner.parse_table_rows is called with the tr rows of a table (line 124);
\* lines 177-179
InitLegacy ==
    /\ pc = "idle"
    /\ table_matrix = EmptyDict
    /\ date_info = EmptyDict
    /\ header_row = NotFound
    /\ column_map = EmptyDict
    /\ row_idx = 0
    /\ current_test = <<>>
    /\ current_prescription = <<>>
    /\ test_data = <<>>
    /\ sort_idx = 1
    /\ current_test_number = None
    /\ test_group = <<>>
    /\ sorted_data = <<>>
    /\ page_result = InitialResult
    /\ call = NoCall
    /\ pages = OnePage
    /\ \E rows \in LegacyTables :
          legacy = [LegacyIdle EXCEPT !.pc = "rows", !.rows = rows]

\* a page goes through one of the two backends
Init ==
    \/ table_matrix \in PageMatrices /\ InitPipeline
    \/ InitLegacy

\* line 284
ExtractDateInfo ==
    /\ pc = "date"
    /\ date_info' = _extract_date_info(table_matrix)
    /\ pc' = "find_header"
    /\ UNCHANGED <<table_matrix, header_row, column_map, row_idx, current_test,
                   current_prescription, test_data, sort_idx, current_test_number,
                   test_group, sorted_data, page_result, legacy, call, pages>>

\* lines 430-434: not found, _extract_strain_data returns []
FindHeaderRow ==
    /\ pc = "find_header"
    /\ header_row' = _find_header_row(table_matrix)
    /\ pc' = IF header_row' = NotFound THEN "page" ELSE "columns"
    /\ sorted_data' = IF header_row' = NotFound THEN <<>> ELSE sorted_data
    /\ UNCHANGED <<table_matrix, date_info, column_map, row_idx, current_test,
                   current_prescription, test_data, sort_idx, current_test_number,
                   test_group, page_result, legacy, call, pages>>

\* faulty variant of InitialContext: the identifiers in force when the previous
\* page ended stay in force
CarriedContext(previous_test, previous_prescription) ==
    <<previous_test, previous_prescription>>

\* lines 468-469: the identifier context with which the row loop starts, whatever
\* the two variables held before
InitialContext(previous_test, previous_prescription) == <<<<>>, <<>>>>

\* lines 437-472
IdentifyColumns ==
    /\ pc = "columns"
    /\ column_map' = _identify_columns(table_matrix,
                                       IF header_row = NoHeader THEN 0 ELSE header_row)
    /\ row_idx' = DataStartRow(header_row)
    /\ current_test' = InitialContext(current_test, current_prescription)[1]
    /\ current_prescription' = InitialContext(current_test, current_prescription)[2]
    /\ test_data' = <<>>
    /\ pc' = "rows"
    /\ UNCHANGED <<table_matrix, date_info, header_row, sort_idx, current_test_number,
                   test_group, sorted_data, page_result, legacy, call, pages>>

\* one iteration of the row loop (lines 474-537)
RowStep ==
    /\ pc = "rows"
    /\ row_idx < MatrixLen(table_matrix)
    /\ row_idx' = row_idx + 1
    /\ IF row_idx \notin DOMAIN table_matrix
       THEN UNCHANGED <<current_test, current_prescription, test_data>>
       ELSE LET row_data == table_matrix[row_idx]
                ctx == ContextAfter(row_data, current_test, current_prescription)
                strain == StrainOf(row_data, column_map)
            IN  /\ current_test' = ctx[1]
                /\ current_prescription' = ctx[2]
                /\ test_data' = IF strain = <<>> THEN test_data
                                ELSE Append(test_data, RecordOf(row_idx, row_data, column_map,
                                                                ctx[1], ctx[2], strain))
    /\ UNCHANGED <<pc, table_matrix, date_info, header_row, column_map, sort_idx,
                   current_test_number, test_group, sorted_data, page_result, legacy, call, pages>>

\* the row loop ends (line 474); lines 556-558
RowsDone ==
    /\ pc = "rows"
    /\ row_idx >= MatrixLen(table_matrix)
    /\ sorted_data' = <<>>
    /\ current_test_number' = None
    /\ test_group' = <<>>
    /\ sort_idx' = 1
    /\ pc' = "sort"
    /\ UNCHANGED <<table_matrix, date_info, header_row, column_map, row_idx, current_test,
                   current_prescription, test_data, page_result, legacy, call, pages>>

\* one iteration of the post-pass loop (lines 560-571)
SortStep ==
    /\ pc = "sort"
    /\ sort_idx <= Len(test_data)
    /\ LET data == test_data[sort_idx]
       IN  IF data.test_number # current_test_number
           THEN /\ sorted_data' = WithGroup(sorted_data, test_group)
                /\ current_test_number' = data.test_number
                /\ test_group' = <<data>>
           ELSE /\ test_group' = Append(test_group, data)
                /\ UNCHANGED <<sorted_data, current_test_number>>
    /\ sort_idx' = sort_idx + 1
    /\ UNCHANGED <<pc, table_matrix, date_info, header_row, column_map, row_idx,
                   current_test, current_prescription, test_data, page_result, legacy, call, pages>>

\* the last group (lines 573-580)
SortFlush ==
    /\ pc = "sort"
    /\ sort_idx > Len(test_data)
    /\ sorted_data' = WithGroup(sorted_data, test_group)
    /\ pc' = "page"
    /\ UNCHANGED <<table_matrix, date_info, header_row, column_map, row_idx, current_test,
                   current_prescription, test_data, sort_idx, current_test_number,
                   test_group, page_result, legacy, call, pages>>

\* lines 289-292 and 1701-1738: the pair (data, date_info) reaches the caller
ProcessPage ==
    /\ pc = "page"
    /\ page_result' = PageResult(sorted_data, date_info)
    /\ pc' = "done"
    /\ UNCHANGED <<table_matrix, date_info, header_row, column_map, row_idx, current_test,
                   current_prescription, test_data, sort_idx, current_test_number,
                   test_group, sorted_data, legacy, call, pages>>

pipeline_vars == <<pc, table_matrix, date_info, header_row, column_map, row_idx,
                   current_test, current_prescription, test_data, sort_idx,
                   current_test_number, test_group, sorted_data, page_result>>

\* lines 187-235: the state of parse_table_rows after a row with two or more cells
AfterRow(state, cells, numbers) ==
    [state EXCEPT !.i = @ + 1,
                  !.current_test_number = numbers[1],
                  !.current_prescription_number = numbers[2],
                  !.table_data = @ \o RowRecords(cells, numbers)]

\* one iteration of the loop of parse_table_rows (lines 181-235)
ParseTableRow ==
    /\ legacy.pc = "rows"
    /\ legacy.i <= Len(legacy.rows)
    /\ LET cells == legacy.rows[legacy.i]
       IN  legacy' = IF Len(cells) < 2 THEN [legacy EXCEPT !.i = @ + 1]
                     ELSE AfterRow(legacy, cells,
                                   NumbersAfter(cells, legacy.current_test_number,
                                                legacy.current_prescription_number))
    /\ UNCHANGED <<pipeline_vars, call, pages>>

\* line 237
ParseTableReturn ==
    /\ legacy.pc = "rows"
    /\ legacy.i > Len(legacy.rows)
    /\ legacy' = [legacy EXCEPT !.pc = "done"]
    /\ UNCHANGED <<pipeline_vars, call, pages>>

Next ==
    \/ ParseTableRow
    \/ ParseTableReturn
    \/ ExtractDateInfo
    \/ FindHeaderRow
    \/ IdentifyColumns
    \/ RowStep
    \/ RowsDone
    \/ SortStep
    \/ SortFlush
    \/ ProcessPage

Spec == Init /\ [][Next]_vars

----------------------------------------------------------------------------
(* The pages of a document.  process_preservation_page is called once for  *)
(* every page that is opened (app_preservation.py lines 397 and 597); each *)
(* browser session runs its calls in a thread of its own, so the calls of  *)
(* two sessions interleave.                                                *)

\* a page with a date row; a page whose first sample row has an empty bulk-name
\* cell; a page without header and strain keywords
DatedPage == MatrixOf(<<DateRowSample, HeaderRowSample, R_BulkBoth_Ecoli, R_Saureus>>)
ContinuedPage == MatrixOf(<<HeaderRowSample, R_Saureus, R_BulkTest_Paeruginosa>>)
UnreadablePage == MatrixOf(<<R_BulkOnly, R_BulkPrescription>>)

DocumentPages == {DatedPage, ContinuedPage, UnreadablePage}

\* the greatest number of pages waiting to be processed
MaxPending == 1

PendingPages == UNION {[1..n -> DocumentPages] : n \in 0..MaxPending}

\* the local variables of an invocation that starts on the matrix tm
Invocation(tm) ==
    [pc |-> "date", table_matrix |-> tm, date_info |-> EmptyDict,
     header_row |-> NotFound, column_map |-> EmptyDict, row_idx |-> 0,
     current_test |-> <<>>, current_prescription |-> <<>>, test_data |-> <<>>,
     sort_idx |-> 1, current_test_number |-> None, test_group |-> <<>>,
     sorted_data |-> <<>>, page_result |-> InitialResult]

\* the local variables of the running invocation
Locals ==
    [pc |-> pc, table_matrix |-> table_matrix, date_info |-> date_info,
     header_row |-> header_row, column_map |-> column_map, row_idx |-> row_idx,
     current_test |-> current_test, current_prescription |-> current_prescription,
     test_data |-> test_data, sort_idx |-> sort_idx,
     current_test_number |-> current_test_number, test_group |-> test_group,
     sorted_data |-> sorted_data, page_result |-> page_result]

\* one session or two, each on a page of its own, and the pages opened later
InitPages ==
    /\ table_matrix \in DocumentPages
    /\ pc = "date"
    /\ date_info = EmptyDict
    /\ header_row = NotFound
    /\ column_map = EmptyDict
    /\ row_idx = 0
    /\ current_test = <<>>
    /\ current_prescription = <<>>
    /\ test_data = <<>>
    /\ sort_idx = 1
    /\ current_test_number = None
    /\ test_group = <<>>
    /\ sorted_data = <<>>
    /\ page_result = InitialResult
    /\ legacy = LegacyIdle
    /\ call = NoCall
    /\ \E pending \in PendingPages,
          other \in {NoInvocation} \cup {Invocation(tm) : tm \in DocumentPages} :
          pages = [pending |-> pending, returned |-> <<>>, other |-> other]

\* the result of the page is returned (lines 1705, 1738) and the next page is
\* opened: line 1660 assigns a new result dict and line 1700 extracts the matrix of
\* that page with a new PreservationTestOCR; a variable of the pipeline that the
\* new invocation has not assigned yet holds what the previous one left in it
NextPage ==
    /\ pc = "done"
    /\ pages.pending # <<>>
    /\ pages' = [pages EXCEPT !.pending = Tail(@),
                              !.returned = Append(@, [table_matrix |-> table_matrix,
                                                      page_result |-> page_result])]
    /\ table_matrix' = Head(pages.pending)
    /\ page_result' = InitialResult
    /\ pc' = "date"
    /\ UNCHANGED <<date_info, header_row, column_map, row_idx, current_test,
                   current_prescription, test_data, sort_idx, current_test_number,
                   test_group, sorted_data, legacy, call>>

\* the scheduler suspends the running invocation and resumes the other one; the
\* local variables of an invocation are its own (each call has its own frame and
\* its own PreservationTestOCR, line 1699)
SwitchInvocation ==
    /\ pages.other # NoInvocation
    /\ pages' = [pages EXCEPT !.other = Locals]
    /\ pc' = pages.other.pc
    /\ table_matrix' = pages.other.table_matrix
    /\ date_info' = pages.other.date_info
    /\ header_row' = pages.other.header_row
    /\ column_map' = pages.other.column_map
    /\ row_idx' = pages.other.row_idx
    /\ current_test' = pages.other.current_test
    /\ current_prescription' = pages.other.current_prescription
    /\ test_data' = pages.other.test_data
    /\ sort_idx' = pages.other.sort_idx
    /\ current_test_number' = pages.other.current_test_number
    /\ test_group' = pages.other.test_group
    /\ sorted_data' = pages.other.sorted_data
    /\ page_result' = pages.other.page_result
    /\ UNCHANGED <<legacy, call>>

PagesNext ==
    \/ ExtractDateInfo
    \/ FindHeaderRow
    \/ IdentifyColumns
    \/ RowStep
    \/ RowsDone
    \/ SortStep
    \/ SortFlush
    \/ ProcessPage
    \/ NextPage
    \/ SwitchInvocation

SpecPages == InitPages /\ [][PagesNext]_vars

----------------------------------------------------------------------------
(* Pages for the Table Structure Resolver *)

\* rows by what _find_header_row looks for in them
H_Filler == R_BulkPrescription
H_SplitKeyword == <<Cell(0, <<"B", "u", "l", "k">>), Cell(1, <<"N", "a", "m", "e">>)>>
H_StrainHeader == <<Cell(0, <<"T", "e", "s", "t", " ", "N", "o">>), Cell(1, <<"S", "t", "r", "a", "i", "n">>), Cell(2, <<"0", " ", "D", "a", "y">>)>>
H_LongNumber == <<Cell(1, <<"A", "s", "p", "e", "r", "g", "i", "l", "l", "u", "s">>), Cell(3, <<"4", "1", "0", "2">>)>>
H_SpacedStrain == <<Cell(0, <<>>), Cell(1, <<"S", ".", " ", "a", "u", "r", "e", "u", "s">>), Cell(2, <<"6", ".", "8", "U+00D7", "1", "0", "5">>)>>

ResolverRows == {H_SplitKeyword, H_StrainHeader, H_LongNumber, H_SpacedStrain,
                 R_BulkBoth_Ecoli, R_Calbicans_NoCfu}

\* the row indices at which a row of ResolverRows is placed: inside and just
\* outside the two scan windows
ResolverPositions == {0, 2, 4, 5, 14, 15}

\* filler rows with the row `first` at index p and, if q > p, the row `second` at
\* index q; `absent` is a set of row indices in which no cell starts
PlacedRows(p, first, q, second, absent) ==
    [r \in (0..(IF q > p THEN q ELSE p)) \ absent |->
        IF r = p THEN first ELSE IF r = q THEN second ELSE H_Filler]

HeaderMatrices ==
    {PlacedRows(p, first, q, second, absent) :
        p \in ResolverPositions, first \in ResolverRows,
        q \in ResolverPositions, second \in ResolverRows,
        absent \in {{}, {1}}}

InitHeader == table_matrix \in HeaderMatrices /\ InitPipeline

HeaderNext ==
    \/ ExtractDateInfo
    \/ FindHeaderRow

SpecHeader == InitHeader /\ [][HeaderNext]_vars

----------------------------------------------------------------------------
(* Pages for the priority of the structural keywords *)

\* rows with a structural keyword in a cell; HeaderRowSample has one too
S_Challenged == <<Cell(0, <<"T", "e", "s", "t", " ", "N", "o">>), Cell(1, <<"C", "h", "a", "l", "l", "e", "n", "g", "e", "d", " ", "o", "r", "g", "a", "n", "i", "s", "m">>), Cell(2, <<"S", "p", "e", "c">>)>>
S_Specification == <<Cell(2, <<"s", "p", "e", "c", "i", "f", "i", "c", "a", "t", "i", "o", "n">>), Cell(3, <<"U+2264", "3">>)>>

StructuralRows == {HeaderRowSample, S_Challenged, S_Specification}

\* rows without one: a strain heading, a strain with CFU values, a strain with a long
\* number, a row with neither keyword
UnstructuralRows == {H_StrainHeader, R_BulkBoth_Ecoli, H_LongNumber, H_Filler}

\* the greatest row index at which a sample row is placed: one past the rows scanned
\* for structural keywords
MaxStructuralRow == 5

\* matrices without gaps: filler rows and two sample rows
StructuralMatrices ==
    {PlacedRows(p, first, q, second, {}) :
        p \in 0..MaxStructuralRow, first \in StructuralRows \cup UnstructuralRows,
        q \in 0..MaxStructuralRow, second \in StructuralRows \cup UnstructuralRows}

InitStructural == table_matrix \in StructuralMatrices /\ InitPipeline

SpecStructural == InitStructural /\ [][HeaderNext]_vars

----------------------------------------------------------------------------
(* Pages for the column identification *)

H_BulkName == <<"B", "u", "l", "k", " ", "N", "a", "m", "e">>
H_Strain == <<"S", "t", "r", "a", "i", "n">>
H_StrainMisread == <<"S", "t", "r", "o", "i", "n">>
H_Specification == <<"S", "p", "e", "c", "i", "f", "i", "c", "a", "t", "i", "o", "n">>
H_Limit == <<"L", "i", "m", "i", "t">>
\* the four day cells with their keyword, and as the bare number
H_Day == <<<<"0", " ", "D", "a", "y">>, <<"7", " ", "D", "a", "y">>, <<"1", "4", " ", "D", "a", "y">>, <<"2", "8", " ", "D", "a", "y">>>>
H_DayNumber == <<<<"0">>, <<"7">>, <<"1", "4">>, <<"2", "8">>>>
H_Judgment == <<"J", "u", "d", "g", "m", "e", "n", "t">>

V_BulkName == <<"2", "5", "E", "1", "5", "I", "1", "4", " ", "G", "B", "1", "9", "1", "9", "-", "Z", "M", "B">>
V_Specification == <<"U+2264", "3">>
V_Scientific == <<"5", ".", "5", "X", "1", "0", "5">>
V_TwoDigits == <<"5", "0">>
V_LessThan10 == <<"<", "1", "0">>
V_Pass == <<"O">>

Labelled(texts) == [i \in 1..Len(texts) |-> Cell(i - 1, texts[i])]

SpecificationColumns == {"keyword", "other label", "none"}

\* a header row: an optional bulk-name cell, the strain cell, an optional
\* specification cell, the four day cells and an optional judgment cell
ColumnHeader(bulk, strain, spec, days, judgment) ==
    Labelled((IF bulk THEN <<H_BulkName>> ELSE <<>>)
             \o <<strain>>
             \o (IF spec = "keyword" THEN <<H_Specification>>
                 ELSE IF spec = "other label" THEN <<H_Limit>> ELSE <<>>)
             \o [i \in 1..4 |-> IF days[i] THEN H_Day[i] ELSE H_DayNumber[i]]
             \o (IF judgment THEN <<H_Judgment>> ELSE <<>>))

\* a data row under such a header
ColumnData(bulk, spec, day0, judgment) ==
    Labelled((IF bulk THEN <<V_BulkName>> ELSE <<>>)
             \o <<E_coli>>
             \o (IF spec = "none" THEN <<>> ELSE <<V_Specification>>)
             \o <<day0, V_LessThan10, V_LessThan10, V_LessThan10>>
             \o (IF judgment THEN <<V_Pass>> ELSE <<>>))

ColumnMatrices ==
    {MatrixOf(<<ColumnHeader(bulk, strain, spec, days, judgment)>>
              \o [i \in 1..n |-> ColumnData(bulk, spec, day0, judgment)]) :
        bulk \in BOOLEAN, strain \in {H_Strain, H_StrainMisread},
        spec \in SpecificationColumns, days \in [1..4 -> BOOLEAN],
        judgment \in BOOLEAN, day0 \in {V_Scientific, V_TwoDigits},
        n \in {1, MaxDataRows}}

InitColumns == table_matrix \in ColumnMatrices /\ InitPipeline

ColumnsNext ==
    \/ ExtractDateInfo
    \/ FindHeaderRow
    \/ IdentifyColumns

SpecColumns == InitColumns /\ [][ColumnsNext]_vars

----------------------------------------------------------------------------
(* Pages for the Date-Block Extractor *)

\* rows of date cells; the cells are listed in the order in which the row's dict
\* holds them
D_FiveUnsorted == <<Cell(5, <<"0", "2", "/", "2", "8">>), Cell(1, <<"1", "2", "-", "2", "5">>), Cell(3, <<"1", "3", "/", "4", "5">>), Cell(2, <<"1", "/", "5">>), Cell(4, <<"0", ".", "1", " ", "1", "5">>), Cell(0, <<"a", "b", "c">>)>>
D_FourMixed == <<Cell(0, <<"D", "a", "t", "e">>), Cell(1, <<"3", " ", " ", "1">>), Cell(2, <<"5", ".", "5", "X", "1", "0", "5">>), Cell(3, <<"0", "3", "/", "0", "1">>), Cell(4, <<"2", "0", "2", "4", "/", "0", "3", "/", "0", "1">>), Cell(5, <<"0", "/", "5">>), Cell(6, <<"1", "2", "/", "2", "0">>)>>
D_Three == <<Cell(0, <<"0", "1", " ", "1", "5">>), Cell(1, <<"0", "1", " ", "2", "2">>), Cell(2, <<"0", "1", " ", "2", "9">>), Cell(3, <<"1", "/", "2", "3", "4">>)>>
D_Single == <<Cell(0, <<"D", "a", "t", "e">>), Cell(1, <<"0", "3", "/", "0", "1">>)>>
D_InvalidThenWrap == <<Cell(0, <<"1", "3", "/", "4", "5">>), Cell(1, <<"1", "2", "/", "2", "0">>)>>
D_InvalidOnly == <<Cell(0, <<"0", "2", ".", "3", "0">>)>>
D_Leap == <<Cell(2, <<"0", "2", "/", "2", "8">>)>>
D_UnsortedSingle == <<Cell(3, <<"1", "2", "/", "2", "0">>), Cell(1, <<"0", ".", "1", " ", "1", "5">>)>>

DateRows == {DateRowSample, D_FiveUnsorted, D_FourMixed, D_Three, D_Single,
             D_InvalidThenWrap, D_InvalidOnly, D_Leap, D_UnsortedSingle, H_Filler}

\* the largest row index at which a row of DateRows is placed
MaxDateRow == 6

DateMatrices ==
    {PlacedRows(p, first, q, second, absent) :
        p \in 0..MaxDateRow, first \in DateRows,
        q \in 0..MaxDateRow, second \in DateRows,
        absent \in {{}, {1}}}

InitDate == table_matrix \in DateMatrices /\ InitPipeline

SpecDate == InitDate /\ [][ExtractDateInfo]_vars

----------------------------------------------------------------------------
(* Pages for the positional CFU columns *)

\* header rows whose day cells hold the bare number, the strain cell in column 1:
\* no specification cell; one right after the strain cell; one two columns after
\* it; one before it
HP_None == <<Cell(0, <<"B", "u", "l", "k", " ", "N", "a", "m", "e">>), Cell(1, <<"S", "t", "r", "a", "i", "n">>), Cell(2, <<"0">>), Cell(3, <<"7">>), Cell(4, <<"1", "4">>), Cell(5, <<"2", "8">>)>>
HP_SpecAfter == <<Cell(0, <<"B", "u", "l", "k", " ", "N", "a", "m", "e">>), Cell(1, <<"S", "t", "r", "a", "i", "n">>), Cell(2, <<"S", "p", "e", "c", "i", "f", "i", "c", "a", "t", "i", "o", "n">>), Cell(3, <<"0">>), Cell(4, <<"7">>), Cell(5, <<"1", "4">>), Cell(6, <<"2", "8">>)>>
HP_SpecApart == <<Cell(0, <<"B", "u", "l", "k", " ", "N", "a", "m", "e">>), Cell(1, <<"S", "t", "r", "a", "i", "n">>), Cell(2, <<"I", "n", "o", "c", "u", "l", "u", "m">>), Cell(3, <<"S", "p", "e", "c", "i", "f", "i", "c", "a", "t", "i", "o", "n">>), Cell(4, <<"0">>), Cell(5, <<"7">>), Cell(6, <<"1", "4">>), Cell(7, <<"2", "8">>)>>
HP_SpecBefore == <<Cell(0, <<"S", "p", "e", "c", "i", "f", "i", "c", "a", "t", "i", "o", "n">>), Cell(1, <<"S", "t", "r", "a", "i", "n">>), Cell(2, <<"0">>), Cell(3, <<"7">>), Cell(4, <<"1", "4">>), Cell(5, <<"2", "8">>)>>

PositionalHeaders == {HP_None, HP_SpecAfter, HP_SpecApart, HP_SpecBefore}

\* the row has no cell in the column
NoCell == <<"no cell">>

\* a data row: the strain in column 1, in column 2 the text next (no cell if NoCell),
\* a value in column 3
PositionalRow(next) ==
    <<Cell(1, E_coli)>> \o (IF next = NoCell THEN <<>> ELSE <<Cell(2, next)>>)
      \o <<Cell(3, V_LessThan10)>>

\* the greatest number of data rows: one more than the rows sampled for the
\* specification column
MaxSampledRows == 6

PositionalPages ==
    {MatrixOf(<<h>> \o [i \in 1..n |-> PositionalRow(next[i])]) :
        h \in PositionalHeaders,
        n \in 0..MaxSampledRows,
        next \in [1..MaxSampledRows -> {V_Specification, V_Scientific, NoCell}]}

InitPositional == table_matrix \in PositionalPages /\ InitPipeline

SpecPositional == InitPositional /\ [][ColumnsNext]_vars

----------------------------------------------------------------------------
(* Pages for the judgment columns *)

\* header rows with a judgment and a final-judgment column, in English and in Korean
H_FinalJudgment == <<Cell(0, <<"B", "u", "l", "k", " ", "N", "a", "m", "e">>), Cell(1, <<"S", "t", "r", "a", "i", "n">>), Cell(2, <<"0", " ", "D", "a", "y">>), Cell(3, <<"7", " ", "D", "a", "y">>), Cell(4, <<"1", "4", " ", "D", "a", "y">>), Cell(5, <<"2", "8", " ", "D", "a", "y">>), Cell(6, <<"J", "u", "d", "g", "m", "e", "n", "t">>), Cell(7, <<"F", "i", "n", "a", "l", " ", "J", "u", "d", "g", "m", "e", "n", "t">>)>>
H_FinalJudgmentKorean == <<Cell(0, <<"B", "u", "l", "k", " ", "N", "a", "m", "e">>), Cell(1, <<"S", "t", "r", "a", "i", "n">>), Cell(2, <<"0", " ", "D", "a", "y">>), Cell(3, <<"7", " ", "D", "a", "y">>), Cell(4, <<"1", "4", " ", "D", "a", "y">>), Cell(5, <<"2", "8", " ", "D", "a", "y">>), Cell(6, <<"U+D310", "U+C815">>), Cell(8, <<"U+CD5C", "U+C885", "U+D310", "U+C815">>)>>

\* the texts of a judgment cell: empty, pass marks, fail marks, other words
JudgmentCells == {<<>>, <<"O">>, <<"X">>, <<"x">>, <<"U+00D7">>, <<"v">>, <<"U+C801", "U+D569">>, <<"U+BD80", "U+C801", "U+D569">>, <<"O", "K">>, <<"N", "G">>, <<"0">>}

\* a sample row with the strain cell and, unless NoCell, the cells of columns c and d
JudgedRow(strain, c, judgment, d, final) ==
    <<Cell(0, <<>>), Cell(1, strain), Cell(2, <<"<", "1", "0">>)>>
      \o (IF judgment = NoCell THEN <<>> ELSE <<Cell(c, judgment)>>)
      \o (IF final = NoCell THEN <<>> ELSE <<Cell(d, final)>>)

JudgedStrains == {<<"E", ".", "c", "o", "l", "i">>, <<"C", "a", "n", "d", "i", "d", "a">>}

\* a header row and one sample row; the cells of the row lie in the judgment and the
\* final-judgment column of the header, or one column to the right of them
JudgmentPages ==
    {MatrixOf(<<h, JudgedRow(strain, c, judgment, d, final)>>) :
        h \in {H_FinalJudgment, H_FinalJudgmentKorean, HeaderRowSample},
        strain \in JudgedStrains,
        c \in {6}, d \in {7, 8},
        judgment \in JudgmentCells \cup {NoCell},
        final \in JudgmentCells \cup {NoCell}}

InitJudgment == table_matrix \in JudgmentPages /\ InitPipeline

JudgmentNext ==
    \/ ExtractDateInfo
    \/ FindHeaderRow
    \/ IdentifyColumns
    \/ RowStep
    \/ RowsDone
    \/ SortStep
    \/ SortFlush
    \/ ProcessPage

SpecJudgment == InitJudgment /\ [][JudgmentNext]_vars

----------------------------------------------------------------------------
(* Pages without a header row *)

\* sample rows with a strain name and CFU values: S.aureus, and E.coli by its
\* binomial name; R_BulkBoth_Ecoli has the abbreviated E.coli
N_Saureus == <<Cell(0, <<>>), Cell(1, <<"S", ".", "a", "u", "r", "e", "u", "s">>), Cell(2, <<"6", ".", "8", "U+00D7", "1", "0", "5">>), Cell(3, <<"<", "1", "0">>)>>
N_Escherichia == <<Cell(1, <<"E", "s", "c", "h", "e", "r", "i", "c", "h", "i", "a", " ", "c", "o", "l", "i">>), Cell(2, <<"1", ".", "0", "x", "1", "0", "^", "5">>), Cell(3, <<"<", "1", "0">>)>>

NamedStrainRows == {R_BulkBoth_Ecoli, N_Saureus, N_Escherichia}

\* one to MaxDataRows rows, each a strain row or a filler row
HeaderlessPages ==
    {MatrixOf(rows) :
        rows \in UNION {[1..n -> NamedStrainRows \cup {H_Filler}] : n \in 1..MaxDataRows}}

InitHeaderless == table_matrix \in HeaderlessPages /\ InitPipeline

SpecHeaderless == InitHeaderless /\ [][JudgmentNext]_vars

----------------------------------------------------------------------------
(* Cells for the Value Normalizer *)

\* cell texts: values in scientific notation, detection limits and their misread
\* forms, merged cells, noise, and texts that are no value
RawSamples == {
    <<"5", ".", "5", "X", "1", "0", "5">>, <<"6", ".", "8", "U+00D7", "1", "0", "5">>, <<"6", ".", "0", " ", "U+00D7", " ", "1", "0">>, <<"<", "6", ".", "1", " ", "U+00D7", " ", "1", "0", "0">>,
    <<"U+2264", "5", ".", "5", "x", "1", "0", "3">>, <<"5", ".", "5", "U+00D7", "1", "0", "^", "5">>, <<"<", "1", "0", "^", "2">>, <<"<", "1", "0", "^", "3">>,
    <<"<", "1", "0">>, <<"<", " ", "1", "0">>, <<"<", "1", "0", "\"">>, <<"<", " ", "1", "0", "\"">>,
    <<"<", " ", "1", "0", "'">>, <<"<", "1", "0", "'">>, <<"C", "I", "O">>, <<"4", "0">>,
    <<"L", "i", "o">>, <<"3">>, <<"C", "1", "0">>, <<"4", "1", "0">>,
    <<"9", "0">>, <<"4", "0", "U+00B0">>, <<"4", "0", "U+20AC">>, <<"C", "I", "U+00D2">>,
    <<"<", "1", "0", "2">>, <<"<", " ", "1", "0", " ", "2">>, <<"4", "1", "0", "2">>, <<"1", "0", "3">>,
    <<"1", "1", "0">>, <<"2", " ", "<", "1", "0">>, <<"<", "1", "0", "?">>, <<"(", "1", "0", ")">>,
    <<"L", " ", "1", "0", "\"">>, <<".", ".", ".">>, <<":", "s", "e", "l", "e", "c", "t", "e", "d", ":">>, <<"7", ".", "0", "X", "1", "0", "2", " ", "1", ".", "0", " ", "U+00D7", "1", "0", "3">>,
    <<"7", ".", "0", "X", "1", "0", "2", " ", "1", ".", "0", "X", "1", "0", "3">>, <<"5", ".", "5", "X", "1", "0", "5", " ", "1", ".", "0", "X", "1", "0", "3">>, <<"<", "5", ".", "5", "X", "1", "0", "5", " ", "<", "1", ".", "0", "X", "1", "0", "3">>, <<"<", "5", ".", "5", "X", "1", "0", "5">>,
    <<"<", "1", "0", " ", "<", " ", "1", "0", "\"">>, <<"<", " ", "1", "0", "\"", " ", "<", " ", "1", "0", "}">>, <<"<", "1", "0", " ", "<", "4", "0">>, <<"<", "1", "0", " ", "<", "2", "0">>,
    <<"M", "a", "x">>, <<"B", "o", "x">>, <<"T", "N", "T", "C">>, <<"N", "/", "D">>,
    <<"a", "b", "c">>, <<"1", "2">>, <<"1", "2", "0">>}

RawAlphabet == {"<", "1", "0", "4", " ", "x", "^"}

\* the greatest length of the texts made of RawAlphabet
MaxRawLen == 3

\* a cell of the matrix holds its content stripped (line 281), a missing cell is ''
RawCells == RawSamples \cup
    {t \in UNION {[1..n -> RawAlphabet] : n \in 0..MaxRawLen} : Strip(t) = t}

DayColumns == {Day0, Day7, Day14, Day28}

\* no page is being processed
IdlePipeline ==
    /\ pc = "idle"
    /\ table_matrix = EmptyDict
    /\ date_info = EmptyDict
    /\ header_row = NotFound
    /\ column_map = EmptyDict
    /\ row_idx = 0
    /\ current_test = <<>>
    /\ current_prescription = <<>>
    /\ test_data = <<>>
    /\ sort_idx = 1
    /\ current_test_number = None
    /\ test_group = <<>>
    /\ sorted_data = <<>>
    /\ page_result = InitialResult
    /\ legacy = LegacyIdle
    /\ pages = OnePage

InitNormalizer ==
    /\ IdlePipeline
    /\ \E value \in RawCells, day_column \in DayColumns :
          call = [op |-> "_clean_cfu_value", pc |-> "called", value |-> value,
                  day_column |-> day_column, result |-> <<>>, again |-> <<>>]

\* _clean_cfu_value(value, strain, day_column) returns
CleanCfuValue ==
    /\ call.op = "_clean_cfu_value"
    /\ call.pc = "called"
    /\ call' = [call EXCEPT !.pc = "returned",
                            !.result = _clean_cfu_value(call.value, S_aureus, call.day_column)]
    /\ UNCHANGED <<pipeline_vars, legacy, pages>>

\* the result is given to _clean_cfu_value once more, for the same column
CleanCfuValueAgain ==
    /\ call.op = "_clean_cfu_value"
    /\ call.pc = "returned"
    /\ call' = [call EXCEPT !.pc = "returned_again",
                            !.again = _clean_cfu_value(call.result, S_aureus, call.day_column)]
    /\ UNCHANGED <<pipeline_vars, legacy, pages>>

NormalizerNext ==
    \/ CleanCfuValue
    \/ CleanCfuValueAgain

SpecNormalizer == InitNormalizer /\ [][NormalizerNext]_vars

----------------------------------------------------------------------------
(* Bulk names for the Identifier Extractor *)

\* free texts: two tokens in one text, trailing text, lower case, a letter past L,
\* a stray blank, and texts with no identifier
BulkSamples == {
    <<"2", "5", "A", "1", "5", "1", "1", "4", "-", "S", "O", "M", "E", " ", "T", "E", "X", "T">>, <<"2", "5", "A", "1", "5", "1", "1", "4", " ", "2", "5", "B", "2", "0", "I", "3", "3">>, <<"2", "5", "B", "2", "0", "I", "3", "3", " ", "2", "5", "A", "1", "5", "1", "1", "4">>,
    <<"2", "5", "A", "1", "5", "I", "1", "4", " ", "2", "5", "B", "2", "0", "1", "1", "4">>, <<"2", "5", "A", "1", "5", "1", "4", " ", "G", "B", "1", "9", "1", "9", "-", "Z", "M", "B">>, <<"2", "5", "E", "1", "5", "I", "1", "4", " ", "G", "B", "1", "9", "1", "9", "-", "Z", "M", "B">>,
    <<"2", "5", "a", "1", "5", "i", "1", "4", " ", "g", "b", "1", "9", "1", "9", " ", "-", " ", "z", "m", "b">>, <<"2", "5", "M", "1", "5", "I", "1", "4">>, <<"2", "5", "A", "1", " ", "5", "1", "1", "4">>,
    <<"L", "O", "T", " ", "7">>, <<"a", "b", "c">>, <<>>,
    <<"A", "B", "1", "2", "3", "4", "-", "C", "D">>, <<"2", "5", "A", "1", "5", "1", "1", "4", "X">>, <<"3", "0", "B", "1", "1", "I", "2", "2", " ", "2", "5", "A", "1", "5", "I", "1", "4">>}

\* the ways OCR renders the letter I of a test number; <<>> is the dropped letter
Renderings == {<<"I">>, <<"1">>, <<"!">>, <<"|">>, <<>>}

\* test numbers of the format 2-digit year, letter A-L, 2-digit code, I, 2 or 3
\* digits, with the I as OCR renders it
Years == {<<"2", "5">>, <<"1", "9">>, <<"3", "0">>}
Letters == {<<"A">>, <<"E">>, <<"L">>}
Codes == {<<"1", "5">>, <<"0", "1">>}
Suffixes == {<<"1", "4">>, <<"0", "2">>, <<"1", "4", "2">>}

TestNumberTokens ==
    {year \o letter \o code \o rendering \o suffix :
        year \in Years, letter \in Letters, code \in Codes,
        rendering \in Renderings, suffix \in Suffixes}

BulkTexts == BulkSamples \cup TestNumberTokens

Extractors == {"_extract_test_info_from_row", "extract_numbers"}

InitExtractor ==
    /\ IdlePipeline
    /\ \E op \in Extractors, text \in BulkTexts :
          call = [op |-> op, pc |-> "called", text |-> text, result |-> <<>>]

\* PreservationTestOCR._extract_test_info_from_row(row_text) returns
ExtractTestInfoFromRow ==
    /\ call.op = "_extract_test_info_from_row"
    /\ call.pc = "called"
    /\ call' = [call EXCEPT !.pc = "returned",
                            !.result = _extract_test_info_from_row(call.text)]
    /\ UNCHANGED <<pipeline_vars, legacy, pages>>

\* DataCleaner.extract_numbers(bulk_name) returns
ExtractNumbers ==
    /\ call.op = "extract_numbers"
    /\ call.pc = "called"
    /\ call' = [call EXCEPT !.pc = "returned", !.result = extract_numbers(call.text)]
    /\ UNCHANGED <<pipeline_vars, legacy, pages>>

ExtractorNext ==
    \/ ExtractTestInfoFromRow
    \/ ExtractNumbers

SpecExtractor == InitExtractor /\ [][ExtractorNext]_vars

----------------------------------------------------------------------------
(* Names for the strain normalizers *)

\* the spellings of the five strains: binomial name, abbreviated form, abbreviated
\* form with period and space
DocumentedAliases == {
    [canonical |-> E_coli, spelling |-> <<"E", "s", "c", "h", "e", "r", "i", "c", "h", "i", "a", " ", "c", "o", "l", "i">>],
    [canonical |-> E_coli, spelling |-> <<"E", ".", "c", "o", "l", "i">>],
    [canonical |-> E_coli, spelling |-> <<"E", ".", " ", "c", "o", "l", "i">>],
    [canonical |-> P_aeruginosa, spelling |-> <<"P", "s", "e", "u", "d", "o", "m", "o", "n", "a", "s", " ", "a", "e", "r", "u", "g", "i", "n", "o", "s", "a">>],
    [canonical |-> P_aeruginosa, spelling |-> <<"P", ".", "a", "e", "r", "u", "g", "i", "n", "o", "s", "a">>],
    [canonical |-> P_aeruginosa, spelling |-> <<"P", ".", " ", "a", "e", "r", "u", "g", "i", "n", "o", "s", "a">>],
    [canonical |-> S_aureus, spelling |-> <<"S", "t", "a", "p", "h", "y", "l", "o", "c", "o", "c", "c", "u", "s", " ", "a", "u", "r", "e", "u", "s">>],
    [canonical |-> S_aureus, spelling |-> <<"S", ".", "a", "u", "r", "e", "u", "s">>],
    [canonical |-> S_aureus, spelling |-> <<"S", ".", " ", "a", "u", "r", "e", "u", "s">>],
    [canonical |-> C_albicans, spelling |-> <<"C", "a", "n", "d", "i", "d", "a", " ", "a", "l", "b", "i", "c", "a", "n", "s">>],
    [canonical |-> C_albicans, spelling |-> <<"C", ".", "a", "l", "b", "i", "c", "a", "n", "s">>],
    [canonical |-> C_albicans, spelling |-> <<"C", ".", " ", "a", "l", "b", "i", "c", "a", "n", "s">>],
    [canonical |-> A_brasiliensis, spelling |-> <<"A", "s", "p", "e", "r", "g", "i", "l", "l", "u", "s", " ", "b", "r", "a", "s", "i", "l", "i", "e", "n", "s", "i", "s">>],
    [canonical |-> A_brasiliensis, spelling |-> <<"A", ".", "b", "r", "a", "s", "i", "l", "i", "e", "n", "s", "i", "s">>],
    [canonical |-> A_brasiliensis, spelling |-> <<"A", ".", " ", "b", "r", "a", "s", "i", "l", "i", "e", "n", "s", "i", "s">>]}

\* texts that are no spelling of a strain
OtherNames == {<<>>, <<"w", "a", "t", "e", "r">>, <<"B", "a", "c", "i", "l", "l", "u", "s", " ", "s", "u", "b", "t", "i", "l", "i", "s">>, <<"T", "o", "t", "a", "l">>, <<"N", "/", "A">>, <<"c", "o", "l", "i">>, <<"E", " ", "c", "o", "l", "i">>, <<"C", "a", "n", "d", "i", "d", "a", "t", "e">>, <<"S", "t", "r", "a", "i", "n">>}

\* the spellings as written, in upper case and in lower case, and the other texts
StrainTexts ==
    UNION {{a.spelling, Upper(a.spelling), Lower(a.spelling)} : a \in DocumentedAliases}
    \cup OtherNames

StrainNormalizers == {"_normalize_strain_name", "normalize_strain_name"}

InitStrain ==
    /\ IdlePipeline
    /\ \E op \in StrainNormalizers, text \in StrainTexts :
          call = [op |-> op, pc |-> "called", text |-> text, result |-> <<>>]

\* PreservationTestOCR._normalize_strain_name(strain) returns
NormalizeStrainNameOcr ==
    /\ call.op = "_normalize_strain_name"
    /\ call.pc = "called"
    /\ call' = [call EXCEPT !.pc = "returned", !.result = _normalize_strain_name(call.text)]
    /\ UNCHANGED <<pipeline_vars, legacy, pages>>

\* DataCleaner.normalize_strain_name(strain) returns
NormalizeStrainName ==
    /\ call.op = "normalize_strain_name"
    /\ call.pc = "called"
    /\ call' = [call EXCEPT !.pc = "returned", !.result = normalize_strain_name(call.text)]
    /\ UNCHANGED <<pipeline_vars, legacy, pages>>

StrainNext ==
    \/ NormalizeStrainNameOcr
    \/ NormalizeStrainName

SpecStrain == InitStrain /\ [][StrainNext]_vars

\* the two leaf components, each called on its own
InitComponents == InitNormalizer \/ InitExtractor

ComponentsNext ==
    \/ CleanCfuValue
    \/ CleanCfuValueAgain
    \/ ExtractTestInfoFromRow
    \/ ExtractNumbers

SpecComponents == InitComponents /\ [][ComponentsNext]_vars

----------------------------------------------------------------------------
(* process_preservation_page with its collaborators: the progress workbook, *)
(* the DRM handling, the page rendering, the temporary file and the OCR     *)
(* service.  Each collaborator returns, reports a failure or raises.        *)

\* the dict of load_progress_excel: nothing loaded, or one prescription
SampleProgress ==
    (<<"G", "B", "1", "9", "1", "9", "-", "Z", "M", "B">> :>
        [product_name |-> <<"c", "r", "e", "a", "m">>, formulation |-> <<"O", "/", "W">>,
         preservative_info |-> <<"1", ",", "2", "-", "H", "D">>])

ProgressDicts == {EmptyDict, SampleProgress}

\* lines 1660-1667: the invocation before its try block
PageCall(excel_path) ==
    [op |-> "process_preservation_page", pc |-> "progress", excel_path |-> excel_path,
     progress_data |-> EmptyDict, progress_failed |-> FALSE, temp_image_path |-> FALSE,
     failure |-> "none", raised |-> FALSE, result |-> InitialResult]

InitFailures ==
    /\ IdlePipeline
    /\ \E excel_path \in BOOLEAN : call = PageCall(excel_path)

\* faulty variant of Caught: the exception leaves process_preservation_page
Propagated(c, step) ==
    [c EXCEPT !.pc = "finally", !.failure = step, !.raised = TRUE]

\* lines 1740-1745: except Exception stores str(e) as the message and returns the
\* result dict as it is
Caught(c, step) ==
    [c EXCEPT !.pc = "finally", !.failure = step,
              !.result = [@ EXCEPT !.message = <<"exception", step>>]]

\* an early return with a message (lines 1680-1682, 1688-1690, 1703-1705)
Refused(c, step) ==
    [c EXCEPT !.pc = "finally", !.failure = step,
              !.result = [@ EXCEPT !.message = <<step>>]]

\* lines 1673-1676 and 96-198: no workbook is given; the workbook is read (its dict
\* may be empty); or reading it fails (openpyxl is not installed, the file is
\* missing, a column is missing, or load_workbook raises, lines 114-120, 160-163 and
\* 196-198) and load_progress_excel returns {}
LoadProgressExcel ==
    /\ call.op = "process_preservation_page"
    /\ call.pc = "progress"
    /\ \/ /\ ~call.excel_path
          /\ call' = [call EXCEPT !.pc = "drm"]
       \/ /\ call.excel_path
          /\ \E progress_data \in ProgressDicts :
                call' = [call EXCEPT !.pc = "drm", !.progress_data = progress_data]
       \/ /\ call.excel_path
          /\ call' = [call EXCEPT !.pc = "drm", !.progress_data = EmptyDict,
                                  !.progress_failed = TRUE]
    /\ UNCHANGED <<pipeline_vars, legacy, pages>>

\* lines 1679-1684: the DRM handling succeeds, refuses the file or raises
ProcessDrmIfNeeded ==
    /\ call.op = "process_preservation_page"
    /\ call.pc = "drm"
    /\ \/ call' = [call EXCEPT !.pc = "render"]
       \/ call' = Refused(call, "drm")
       \/ call' = Caught(call, "drm")
    /\ UNCHANGED <<pipeline_vars, legacy, pages>>

\* lines 1687-1690: the page is rendered, no image comes back, or the call raises
RenderPageImage ==
    /\ call.op = "process_preservation_page"
    /\ call.pc = "render"
    /\ \/ call' = [call EXCEPT !.pc = "tempfile"]
       \/ call' = Refused(call, "render")
       \/ call' = Caught(call, "render")
    /\ UNCHANGED <<pipeline_vars, legacy, pages>>

\* lines 1693-1695: the temporary file is made and written; making it raises; or
\* writing raises after temp_image_path was assigned
SaveTempImage ==
    /\ call.op = "process_preservation_page"
    /\ call.pc = "tempfile"
    /\ \/ call' = [call EXCEPT !.pc = "ocr", !.temp_image_path = TRUE]
       \/ call' = Caught(call, "tempfile")
       \/ call' = Caught([call EXCEPT !.temp_image_path = TRUE], "tempfile")
    /\ UNCHANGED <<pipeline_vars, legacy, pages>>

\* lines 1699-1700 and 253-281: the OCR client or the service raises; the service
\* finds no table (line 267) and the empty data ends the page (lines 1702-1704); or
\* the cells of the largest table become the matrix of the page
AnalyzeDocument ==
    /\ call.op = "process_preservation_page"
    /\ call.pc = "ocr"
    /\ \/ /\ call' = Caught(call, "ocr")
          /\ UNCHANGED pipeline_vars
       \/ /\ call' = [Refused(call, "no table") EXCEPT !.result = FailedResult]
          /\ UNCHANGED pipeline_vars
       \/ /\ call' = [call EXCEPT !.pc = "extract"]
          /\ table_matrix' \in DocumentPages
          /\ pc' = "date"
          /\ UNCHANGED <<date_info, header_row, column_map, row_idx, current_test,
                         current_prescription, test_data, sort_idx, current_test_number,
                         test_group, sorted_data, page_result>>
    /\ UNCHANGED <<legacy, pages>>

\* lines 1712-1723: the three fields of the progress workbook in one record
WithProgress(item, progress_data) ==
    LET found == item.prescription_number # <<>>
                 /\ item.prescription_number \in DOMAIN progress_data
        field(k) == IF found THEN progress_data[item.prescription_number][k] ELSE <<>>
    IN  [k \in DOMAIN item \cup {"product_name", "formulation", "preservative_info"} |->
            IF k \in DOMAIN item THEN item[k] ELSE field(k)]

\* lines 1707-1734: the records are matched with the progress data if there is any,
\* and the result is formatted
Formatted(result, progress_data) ==
    IF progress_data = EmptyDict THEN result
    ELSE [result EXCEPT !.data = [i \in DOMAIN @ |-> WithProgress(@[i], progress_data)]]

\* lines 1702-1738 after the extraction: the empty record list ends the page, or
\* the result is formatted
FormatResult ==
    /\ call.op = "process_preservation_page"
    /\ call.pc = "extract"
    /\ pc = "done"
    /\ \/ /\ ~page_result.success
          /\ call' = [Refused(call, "no records") EXCEPT !.result = page_result]
       \/ /\ page_result.success
          /\ call' = [call EXCEPT !.pc = "finally",
                                  !.result = Formatted(page_result, call.progress_data)]
    /\ UNCHANGED <<pipeline_vars, legacy, pages>>

\* lines 1747-1754: the temporary file is removed, or removing it raises and the
\* exception is logged; then the result is returned, or the exception goes on
RemoveTempImage ==
    /\ call.op = "process_preservation_page"
    /\ call.pc = "finally"
    /\ \E removed \in BOOLEAN :
          call' = [call EXCEPT !.pc = IF call.raised THEN "raised" ELSE "returned",
                               !.temp_image_path = @ /\ ~removed]
    /\ UNCHANGED <<pipeline_vars, legacy, pages>>

FailuresNext ==
    \/ LoadProgressExcel
    \/ ProcessDrmIfNeeded
    \/ RenderPageImage
    \/ SaveTempImage
    \/ AnalyzeDocument
    \/ ExtractDateInfo
    \/ FindHeaderRow
    \/ IdentifyColumns
    \/ RowStep
    \/ RowsDone
    \/ SortStep
    \/ SortFlush
    \/ ProcessPage
    \/ FormatResult
    \/ RemoveTempImage

SpecFailures == InitFailures /\ [][FailuresNext]_vars

----------------------------------------------------------------------------
(* app_preservation: the session of one browser tab.  Every user event runs *)
(* the script from its top; st.rerun() ends a run and starts the next one.  *)
(* st.session_state and the workbook of the session are the record `call`. *)

\* a page that carries the test number of DatedPage once more
RepeatedPage == MatrixOf(<<HeaderRowSample, R_BulkBoth_Ecoli>>)

\* the uploaded documents and the table of each of their pages
FilePages ==
    ("a.pdf" :> <<DatedPage, ContinuedPage, RepeatedPage>>) @@ ("b.pdf" :> <<UnreadablePage>>)

\* current_file_name is None until a document is chosen (line 119)
NoFile == "None"

\* PDFProcessor.extract_page_count (backend.py lines 38-45)
PageCount(s) == Len(FilePages[s.current_file_name])

\* pandas keeps the None that lines 824 and 833 store in a column as None or as NaN
NaN == <<"nan">>

MissingValues == {None, NaN}

IsNa(v) == v \in MissingValues

\* Python's == on two cells: NaN equals nothing
PyEq(a, b) == a # NaN /\ b # NaN /\ a = b

\* Python's truth value of a cell
Truthy(v) == v # <<>> /\ v # None

\* Python's str() of a cell
PyStr(v) ==
    IF v = None THEN <<"N", "o", "n", "e">>
    ELSE IF v = NaN THEN <<"n", "a", "n">>
    ELSE v

CrossMark == <<"U+274C">>

WarningSign == <<"U+26A0", "U+FE0F">>

\* lines 106-135 and 325-339: the state of a new session; the _temp_edited_df_
\* entries and the choice of pandas outlive a reset
NewSession(missing, temp_edited_df) ==
    [op |-> "app_preservation", pc |-> "idle", missing |-> missing,
     current_file_name |-> NoFile, current_page |-> 1, saved_pages |-> {},
     ocr_data_frames |-> EmptyDict, temp_edited_df |-> temp_edited_df,
     reset_confirm |-> FALSE, sheets |-> EmptyDict,
     trigger |-> "none", event |-> "started", auto_runs |-> EmptyDict,
     written |-> EmptyDict]

InitSession ==
    /\ IdlePipeline
    /\ \E missing \in MissingValues : call = NewSession(missing, EmptyDict)

\* lines 142, 379, 430, 454, 592
KeyOf(s) == <<s.current_file_name, s.current_page>>

\* line 226
has_work(s) == DOMAIN s.ocr_data_frames # {}

\* lines 380-381, 431-432
ocr_completed(s) == KeyOf(s) \in DOMAIN s.ocr_data_frames

has_data(s) == ocr_completed(s) /\ s.ocr_data_frames[KeyOf(s)].data # <<>>

\* lines 434, 455
is_last_page(s) == s.current_page >= PageCount(s)

\* lines 359-364
Clamped(s) ==
    LET high == IF s.current_page > PageCount(s) THEN PageCount(s) ELSE s.current_page
    IN  [s EXCEPT !.current_page = IF high < 1 THEN 1 ELSE high]

\* lines 383-391: the OCR button is disabled once the page has data
OcrDisabled(s) == ocr_completed(s) /\ has_data(s)

\* lines 436-439
SaveDisabled(s) == IF is_last_page(s) THEN FALSE ELSE ~(ocr_completed(s) /\ has_data(s))

\* faulty variant of NextDisabled: only the last page stops the pointer
NextDisabledOnLastPage(s) == is_last_page(s)

\* lines 456-458
NextDisabled(s) == ~(KeyOf(s) \in s.saved_pages) \/ is_last_page(s)

\* faulty variant of AutoOcrDue: a page without data is analysed again
AutoOcrDueWithoutData(s) ==
    /\ s.current_file_name # NoFile
    /\ ~has_data(s)
    /\ s.current_page > 1

\* line 595
AutoOcrDue(s) ==
    /\ s.current_file_name # NoFile
    /\ KeyOf(s) \notin DOMAIN s.ocr_data_frames
    /\ s.current_page > 1

\* lines 402-418 and 602-616: what is stored for a result
BundleOf(result) ==
    IF result.success
    THEN [data |-> result.data, date_info |-> result.date_info, error |-> FALSE]
    ELSE [data |-> <<>>, date_info |-> EmptyDict, error |-> TRUE]

Stored(s, result) ==
    [s EXCEPT !.ocr_data_frames = (KeyOf(s) :> BundleOf(result)) @@ @,
              !.pc = "rerun", !.trigger = "none",
              !.event = IF result.success THEN "ocr stored" ELSE "ocr failed"]

\* lines 710-721 (mark_brasiliensis)
MarkBrasiliensis(value, strain) ==
    LET value_str == Strip(PyStr(value))
    IN  IF value_str = <<>> \/ IsNa(value) THEN CrossMark
        ELSE IF Contains(Lower(PyStr(strain)), <<"b", "r", "a", "s", "i", "l", "i", "e", "n", "s", "i", "s">>)
             THEN WarningSign \o <<" ">> \o value_str
             ELSE value_str

\* lines 803-809 (remove_emoji)
RemoveEmoji(value) ==
    LET value_str == Strip(PyStr(value))
    IN  IF value_str = CrossMark THEN <<>>
        ELSE IF Contains(value_str, WarningSign) THEN Strip(Replace(value_str, WarningSign, <<>>))
             ELSE value_str

\* the value of column k in the row before row i, None before the first row
\* (prev_test, prev_presc and prev_final of lines 745-772)
PrevOf(df, i, k) == IF i = 1 THEN None ELSE df[i - 1][k]

\* lines 707-772: the frame that the editor shows
Displayed(df) ==
    [i \in 1..Len(df) |->
        [df[i] EXCEPT
            !.cfu_0day = MarkBrasiliensis(@, df[i].strain),
            !.cfu_7day = MarkBrasiliensis(@, df[i].strain),
            !.cfu_14day = MarkBrasiliensis(@, df[i].strain),
            !.cfu_28day = MarkBrasiliensis(@, df[i].strain),
            !.judgment = IF Strip(PyStr(@)) = <<>> \/ IsNa(@) THEN CrossMark ELSE @,
            !.test_number = IF PyEq(@, PrevOf(df, i, "test_number")) THEN <<>> ELSE @,
            !.prescription_number =
                IF PyEq(@, PrevOf(df, i, "prescription_number")) THEN <<>> ELSE @,
            !.final_judgment =
                IF PyEq(@, PrevOf(df, i, "final_judgment"))
                   /\ Truthy(PrevOf(df, i, "final_judgment"))
                THEN <<>> ELSE @]]

\* lines 811-813
Cleaned(df) ==
    [i \in 1..Len(df) |->
        [df[i] EXCEPT !.test_number = RemoveEmoji(@),
                      !.prescription_number = RemoveEmoji(@),
                      !.cfu_0day = RemoveEmoji(@),
                      !.cfu_7day = RemoveEmoji(@),
                      !.cfu_14day = RemoveEmoji(@),
                      !.cfu_28day = RemoveEmoji(@)]]

\* lines 819-843: an empty cell takes the last value above it that is not empty,
\* and None if there is none
FilledFrom(df, i, k, missing) ==
    LET above == {j \in 1..(i - 1) : df[j][k] # <<>> /\ ~IsNa(df[j][k])}
    IN  IF df[i][k] # <<>> /\ ~IsNa(df[i][k]) THEN df[i][k]
        ELSE IF above = {} THEN missing
        ELSE df[CHOOSE j \in above : \A h \in above : h <= j][k]

Restored(df, missing) ==
    [i \in 1..Len(df) |->
        [df[i] EXCEPT !.test_number = FilledFrom(df, i, "test_number", missing),
                      !.prescription_number = FilledFrom(df, i, "prescription_number", missing),
                      !.final_judgment = FilledFrom(df, i, "final_judgment", missing)]]

\* lines 692-846: the frame stored as _temp_edited_df_ when the result of a page is
\* shown; the empty cells are filled only while no edited frame is stored
EditedRestored(s) ==
    IF KeyOf(s) \in DOMAIN s.temp_edited_df
    THEN Cleaned(Displayed(s.temp_edited_df[KeyOf(s)]))
    ELSE Restored(Cleaned(Displayed(s.ocr_data_frames[KeyOf(s)].data)), s.missing)

\* lines 620-850: the right column of the page when no OCR is due
Rendered(s) ==
    IF s.current_file_name # NoFile /\ has_data(s)
    THEN [s EXCEPT !.temp_edited_df = (KeyOf(s) :> EditedRestored(s)) @@ @]
    ELSE s

\* backend_preservation.py lines 1937-1941: the test numbers of a frame
TestNumbersOf(data) == {data[i].test_number : i \in 1..Len(data)} \ MissingValues

\* lines 1949-1951: the test numbers that get a sheet
SheetNames(data) == {n \in TestNumbersOf(data) : n # <<>> /\ Strip(PyStr(n)) # <<>>}

\* lines 2091-2148: the cells of a strain are those of its last row; a row of
\* another strain is not written
SheetOf(data, test_number) ==
    LET rows == {i \in 1..Len(data) : data[i].test_number = test_number
                                      /\ Truthy(data[i].strain)
                                      /\ data[i].strain \in {STRAINS[k] : k \in 1..Len(STRAINS)}}
        last(strain) == CHOOSE i \in rows : /\ data[i].strain = strain
                                            /\ \A j \in rows : data[j].strain = strain => j <= i
    IN  [strain \in {data[i].strain : i \in rows} |->
            [cfu_0day |-> data[last(strain)].cfu_0day,
             cfu_7day |-> data[last(strain)].cfu_7day,
             cfu_14day |-> data[last(strain)].cfu_14day,
             cfu_28day |-> data[last(strain)].cfu_28day,
             judgment |-> data[last(strain)].judgment]]

\* lines 1947-1973: the sheet of a test number is deleted if there is one and made
\* anew from the rows of the frame; the other sheets stay
add_test_data(sheets, data) ==
    [n \in DOMAIN sheets \cup SheetNames(data) |->
        IF n \in SheetNames(data) THEN SheetOf(data, n) ELSE sheets[n]]

\* the cells that add_test_data writes for a frame
WrittenBy(data) ==
    UNION {{[sheet |-> n, strain |-> strain, cells |-> SheetOf(data, n)[strain]] :
               strain \in DOMAIN SheetOf(data, n)} : n \in SheetNames(data)}

\* app_preservation.py lines 140-181 (save_current_page) with lines 1918-1984:
\* add_test_data returns False for a frame without a test number (lines 1939-1941)
\* and when the workbook cannot be loaded or saved (lines 1980-1984)
save_current_page(s, workbook_ok) ==
    IF ~ocr_completed(s) \/ ~has_data(s) THEN [s EXCEPT !.event = "save reported"]
    ELSE LET key == KeyOf(s)
             data == IF key \in DOMAIN s.temp_edited_df THEN s.temp_edited_df[key]
                     ELSE s.ocr_data_frames[key].data
             edited == [s EXCEPT !.ocr_data_frames[key].data = data]
         IN  IF workbook_ok /\ TestNumbersOf(data) # {}
             THEN [edited EXCEPT !.sheets = add_test_data(@, data),
                                 !.saved_pages = @ \cup {key},
                                 !.written = (key :> WrittenBy(data)) @@ @,
                                 !.event = "save reported"]
             ELSE [edited EXCEPT !.event = "save failed"]

\* lines 228-301: a document is chosen while no page has a result
UploadFile ==
    /\ call.op = "app_preservation"
    /\ call.pc = "idle"
    /\ ~has_work(call)
    /\ \E name \in DOMAIN FilePages :
          /\ call.current_file_name # name
          /\ call' = [call EXCEPT !.current_file_name = name, !.current_page = 1,
                                  !.pc = "rerun", !.event = "uploaded"]
    /\ UNCHANGED <<pipeline_vars, legacy, pages>>

\* lines 307-311
AskReset ==
    /\ call.op = "app_preservation"
    /\ call.pc = "idle"
    /\ has_work(call)
    /\ ~call.reset_confirm
    /\ call' = [call EXCEPT !.reset_confirm = TRUE, !.pc = "rerun", !.event = "reset asked"]
    /\ UNCHANGED <<pipeline_vars, legacy, pages>>

\* lines 315-317
CancelReset ==
    /\ call.op = "app_preservation"
    /\ call.pc = "idle"
    /\ has_work(call)
    /\ call.reset_confirm
    /\ call' = [call EXCEPT !.reset_confirm = FALSE, !.pc = "rerun",
                            !.event = "reset cancelled"]
    /\ UNCHANGED <<pipeline_vars, legacy, pages>>

\* lines 319-342: the workbook is deleted and the session starts anew
ConfirmReset ==
    /\ call.op = "app_preservation"
    /\ call.pc = "idle"
    /\ has_work(call)
    /\ call.reset_confirm
    /\ call' = [NewSession(call.missing, call.temp_edited_df) EXCEPT !.pc = "rerun",
                                                                    !.event = "reset"]
    /\ UNCHANGED <<pipeline_vars, legacy, pages>>

\* lines 393-400 and 596-600 with backend_preservation.py lines 1671-1705:
\* process_preservation_page ends with a failure before the table is read, or the
\* table of the page is extracted
StartOcr(s, trigger) ==
    \/ /\ call' = Stored(s, FailedResult)
       /\ UNCHANGED pipeline_vars
    \/ /\ call' = [s EXCEPT !.pc = "ocr", !.trigger = trigger]
       /\ table_matrix' = FilePages[s.current_file_name][s.current_page]
       /\ page_result' = InitialResult
       /\ pc' = "date"
       /\ UNCHANGED <<date_info, header_row, column_map, row_idx, current_test,
                      current_prescription, test_data, sort_idx, current_test_number,
                      test_group, sorted_data>>

\* lines 378-400: the OCR button
ClickOcr ==
    /\ call.op = "app_preservation"
    /\ call.pc = "idle"
    /\ call.current_file_name # NoFile
    /\ ~OcrDisabled(Clamped(call))
    /\ StartOcr(Clamped(call), "button")
    /\ UNCHANGED <<legacy, pages>>

\* lines 402-419 and 602-617: the result is stored and the script runs again
StoreResult ==
    /\ call.op = "app_preservation"
    /\ call.pc = "ocr"
    /\ pc = "done"
    /\ call' = Stored(call, page_result)
    /\ UNCHANGED <<pipeline_vars, legacy, pages>>

\* lines 422-426
ClickPrevious ==
    /\ call.op = "app_preservation"
    /\ call.pc = "idle"
    /\ call.current_file_name # NoFile
    /\ Clamped(call).current_page > 1
    /\ call' = [Clamped(call) EXCEPT !.current_page = @ - 1, !.pc = "rerun",
                                     !.event = "previous"]
    /\ UNCHANGED <<pipeline_vars, legacy, pages>>

\* lines 429-450: the Save button; the script goes on and shows the page
ClickSave ==
    /\ call.op = "app_preservation"
    /\ call.pc = "idle"
    /\ call.current_file_name # NoFile
    /\ ~SaveDisabled(Clamped(call))
    /\ \E workbook_ok \in BOOLEAN :
          call' = Rendered(save_current_page(Clamped(call), workbook_ok))
    /\ UNCHANGED <<pipeline_vars, legacy, pages>>

\* lines 452-463
ClickNext ==
    /\ call.op = "app_preservation"
    /\ call.pc = "idle"
    /\ call.current_file_name # NoFile
    /\ ~NextDisabled(Clamped(call))
    /\ ~is_last_page(Clamped(call))
    /\ call' = [Clamped(call) EXCEPT !.current_page = @ + 1, !.pc = "rerun",
                                     !.event = "next"]
    /\ UNCHANGED <<pipeline_vars, legacy, pages>>

\* the number of automatic OCR runs of a page in this session
AutoRuns(s, key) == IF key \in DOMAIN s.auto_runs THEN s.auto_runs[key] ELSE 0

\* lines 592-617: a run that comes to a page after the first without a stored
\* result analyses it
AutomaticOcr ==
    /\ call.op = "app_preservation"
    /\ call.pc = "rerun"
    /\ call.current_file_name # NoFile
    /\ AutoOcrDue(Clamped(call))
    /\ LET s == Clamped(call)
       IN  StartOcr([s EXCEPT !.auto_runs = (KeyOf(s) :> (AutoRuns(s, KeyOf(s)) + 1)) @@ @],
                    "automatic")
    /\ UNCHANGED <<legacy, pages>>

\* a run after st.rerun() in which no button is clicked and no OCR is due
RunScript ==
    /\ call.op = "app_preservation"
    /\ call.pc = "rerun"
    /\ \/ /\ call.current_file_name = NoFile
          /\ call' = [call EXCEPT !.pc = "idle"]
       \/ /\ call.current_file_name # NoFile
          /\ ~AutoOcrDue(Clamped(call))
          /\ call' = [Rendered(Clamped(call)) EXCEPT !.pc = "idle"]
    /\ UNCHANGED <<pipeline_vars, legacy, pages>>

SessionNext ==
    \/ UploadFile
    \/ AskReset
    \/ CancelReset
    \/ ConfirmReset
    \/ ClickOcr
    \/ ExtractDateInfo
    \/ FindHeaderRow
    \/ IdentifyColumns
    \/ RowStep
    \/ RowsDone
    \/ SortStep
    \/ SortFlush
    \/ ProcessPage
    \/ StoreResult
    \/ ClickPrevious
    \/ ClickSave
    \/ ClickNext
    \/ AutomaticOcr
    \/ RunScript

SpecSession == InitSession /\ [][SessionNext]_vars

----------------------------------------------------------------------------
(* Properties of the Record Assembler *)

\* what the Identifier Extractor returns for column 0 of each row start..last
ExtractedFrom(tm, start, last) ==
    [q \in start..last |->
        IF q \in DOMAIN tm
        THEN _extract_test_info_from_row(Strip(RowGet(tm[q], bulk_name_col, <<>>)))
        ELSE <<<<>>, <<>>>>]

\* field k of the most recent row start..r whose extracted field k is not empty
MostRecent(extracted, start, r, k) ==
    LET rows == {q \in start..r : extracted[q][k] # <<>>}
    IN  IF rows = {} THEN <<>>
        ELSE extracted[CHOOSE q \in rows : \A q2 \in rows : q2 <= q][k]

HasContextOfRow(rec, extracted, start) ==
    /\ rec.test_number = MostRecent(extracted, start, rec.row, 1)
    /\ rec.prescription_number = MostRecent(extracted, start, rec.row, 2)

\* C1: when the assembler has returned, every record emitted by the row loop,
\* and every record of the reordered output, carries as test_number and
\* prescription_number the most recent non-empty value extracted from column 0
\* of a row between the first data row and the record's own row, or the empty
\* text if there is none.
C1_IdentifierContext ==
    (pc = "done" /\ header_row # NotFound) =>
        LET start == DataStartRow(header_row)
            extracted == ExtractedFrom(table_matrix, start, MatrixLen(table_matrix))
        IN  /\ \A i \in 1..Len(test_data) : HasContextOfRow(test_data[i], extracted, start)
            /\ \A i \in 1..Len(sorted_data) : HasContextOfRow(sorted_data[i], extracted, start)

\* C1 witness: a returned record takes its test number from a bulk-name row above
\* it that emitted no record, its own row having no column 0
C1_Witness ==
    /\ pc = "done"
    /\ \E i \in 1..Len(sorted_data) :
          LET rec == sorted_data[i]
          IN  /\ rec.test_number # <<>>
              /\ rec.prescription_number # <<>>
              /\ ~RowHas(table_matrix[rec.row], bulk_name_col)
              /\ \E q \in DataStartRow(header_row)..(rec.row - 1) :
                    /\ q \in DOMAIN table_matrix
                    /\ RowHas(table_matrix[q], bulk_name_col)
                    /\ \A j \in 1..Len(test_data) : test_data[j].row # q

\* the position of a strain in the Canonical Strain Order
CanonicalIndex(strain) ==
    CHOOSE k \in 1..5 :
        <<E_coli, P_aeruginosa, S_aureus, C_albicans, A_brasiliensis>>[k] = strain

\* C3: in the assembler's output, inside every maximal run of records with the
\* same test_number the records are in non-decreasing canonical strain order and
\* records of one strain keep their row order; one bulk-name row followed by the
\* five strains in any order gives exactly five records in canonical order, all
\* with the test and prescription number of the bulk name.
C3_CanonicalOrder ==
    /\ \A i \in 1..(Len(sorted_data) - 1) :
          sorted_data[i].test_number = sorted_data[i + 1].test_number =>
              \/ CanonicalIndex(sorted_data[i].strain) < CanonicalIndex(sorted_data[i + 1].strain)
              \/ /\ sorted_data[i].strain = sorted_data[i + 1].strain
                 /\ sorted_data[i].row < sorted_data[i + 1].row
    /\ (pc = "done" /\ table_matrix \in FiveStrainPages) =>
          /\ [i \in 1..Len(sorted_data) |-> sorted_data[i].strain]
                = <<E_coli, P_aeruginosa, S_aureus, C_albicans, A_brasiliensis>>
          /\ \A i \in 1..Len(sorted_data) :
                /\ sorted_data[i].test_number = <<"2", "5", "E", "1", "5", "I", "1", "4">>
                /\ sorted_data[i].prescription_number
                      = <<"G", "B", "1", "9", "1", "9", "-", "Z", "M", "B">>

\* C3 witness: five strain rows that came in another order are returned in
\* canonical order
C3_Witness ==
    /\ pc = "done"
    /\ table_matrix \in FiveStrainPages
    /\ Len(sorted_data) = 5
    /\ test_data[1].strain = A_brasiliensis
    /\ test_data[5].strain = E_coli
    /\ sorted_data[1].strain = E_coli

\* the first position of the maximal run of equal test numbers that holds position i
RunStart(data, i) ==
    CHOOSE j \in 1..i :
        /\ \A k \in j..i : data[k].test_number = data[i].test_number
        /\ j = 1 \/ data[j - 1].test_number # data[i].test_number

\* the position of the record made from row r
PositionOf(data, r) == CHOOSE i \in 1..Len(data) : data[i].row = r

\* C4: the reordered output is a permutation of the emitted records, the test
\* number at every position is the one that was there before, and every record
\* stays inside its own maximal run of equal test numbers.
C4_RunsPreserved ==
    pc = "done" =>
        /\ Len(sorted_data) = Len(test_data)
        /\ {sorted_data[i] : i \in 1..Len(sorted_data)} = {test_data[i] : i \in 1..Len(test_data)}
        /\ \A i \in 1..Len(test_data) :
              /\ sorted_data[i].test_number = test_data[i].test_number
              /\ RunStart(test_data, PositionOf(sorted_data, test_data[i].row))
                    = RunStart(test_data, i)

\* C4 witness: two runs with the same test number lie apart and a run was
\* reordered
C4_Witness ==
    /\ pc = "done"
    /\ sorted_data # test_data
    /\ \E i, j, k \in 1..Len(test_data) :
          /\ i < j /\ j < k
          /\ test_data[i].test_number # <<>>
          /\ test_data[i].test_number = test_data[k].test_number
          /\ test_data[i].test_number # test_data[j].test_number

\* the rows from the first data row on whose strain cell names a canonical strain
StrainRows(tm, start, map) ==
    {r \in DOMAIN tm : r >= start /\ StrainOf(tm[r], map) # <<>>}

\* C5: for every matrix, also one whose row indices have gaps, the assembler
\* visits every row from the first data row up to the largest row index present
\* and emits exactly one record for each row whose strain cell names a
\* canonical strain, and none for another row.
C5_OneRecordPerStrainRow ==
    (pc = "done" /\ header_row # NotFound) =>
        LET rows == StrainRows(table_matrix, DataStartRow(header_row), column_map)
        IN  /\ \A r \in DOMAIN table_matrix : row_idx > r
            /\ {test_data[i].row : i \in 1..Len(test_data)} = rows
            /\ Len(test_data) = Cardinality(rows)

\* C6: a page with neither a header row nor a candidate row is reported as
\* not-found by the resolver, and what process_preservation_page returns for
\* such a page is returned for no page whose table structure was resolved.
C6_NotFoundDistinguishable ==
    pc = "done" =>
        /\ (\A r \in DOMAIN table_matrix :
                /\ r < KeywordScanRows => ~ContainsAny(RowText(table_matrix[r]), header_keywords)
                /\ r < CandidateScanRows => ~ContainsAny(RowText(table_matrix[r]), strain_keywords))
              => header_row = NotFound /\ page_result = FailedResult
        /\ header_row # NotFound => page_result # FailedResult

\* one field of the context after a row, by the rule of field-by-field update:
\* replaced iff the extractor found a value, kept otherwise
FieldByField(previous, extracted, nothing) ==
    IF extracted # nothing THEN extracted ELSE previous

\* C2: in both assemblers one row changes the identifier context only through
\* its column-0 (bulk-name) text and field by field: a field is replaced iff the
\* extractor returns a value for it, and keeps its previous value otherwise.
C2_FieldByField ==
    [][/\ (pc = "rows" /\ row_idx' # row_idx) =>
            LET info == IF row_idx \in DOMAIN table_matrix
                        THEN _extract_test_info_from_row(
                                 Strip(RowGet(table_matrix[row_idx], bulk_name_col, <<>>)))
                        ELSE <<<<>>, <<>>>>
            IN  /\ current_test' = FieldByField(current_test, info[1], <<>>)
                /\ current_prescription' = FieldByField(current_prescription, info[2], <<>>)
       /\ (legacy.pc = "rows" /\ legacy'.i # legacy.i) =>
            LET cells == legacy.rows[legacy.i]
                info == IF Len(cells) >= 2 /\ IsBulkRow(cells)
                        THEN extract_numbers(Strip(cells[1].text))
                        ELSE <<None, None>>
            IN  /\ legacy'.current_test_number =
                       FieldByField(legacy.current_test_number, info[1], None)
                /\ legacy'.current_prescription_number =
                       FieldByField(legacy.current_prescription_number, info[2], None)
      ]_vars
----------------------------------------------------------------------------
(* Properties of the Table Structure Resolver *)

\* the sample rows whose text holds a structural keyword, a strain keyword, CFU-shaped
\* content, and a strain name next to a scientific-notation value
WithStructuralKeyword == {H_SplitKeyword}
WithStrainKeyword == {H_StrainHeader, H_LongNumber, R_BulkBoth_Ecoli, R_Calbicans_NoCfu}
CfuShaped == {H_LongNumber, H_SpacedStrain, R_BulkBoth_Ecoli}
StrainAndScientific == {H_SpacedStrain, R_BulkBoth_Ecoli}

\* C7: when no structural keyword occurs in rows 0-4, the outcome is decided by the
\* candidate rows (rows 0-14 with a strain keyword): not-found only if there is none,
\* no-header if the first candidate holds CFU-shaped content, else that row as the
\* header; and a matrix whose row 0 holds a strain name and a scientific-notation
\* value yields no-header.
C7_CandidateDecides ==
    pc \notin {"date", "find_header"} =>
        LET structural == {r \in DOMAIN table_matrix :
                              r <= 4 /\ table_matrix[r] \in WithStructuralKeyword}
            candidates == {r \in DOMAIN table_matrix :
                              r <= 14 /\ table_matrix[r] \in WithStrainKeyword}
            first == CHOOSE r \in candidates : \A q \in candidates : r <= q
        IN  structural = {} =>
                /\ header_row = (IF candidates = {} THEN NotFound
                                 ELSE IF table_matrix[first] \in CfuShaped THEN NoHeader
                                 ELSE first)
                /\ table_matrix[0] \in StrainAndScientific => header_row = NoHeader

----------------------------------------------------------------------------
(* Properties of the Column Map *)

CfuColumnKeys == {"cfu_0_col", "cfu_7_col", "cfu_14_col", "cfu_28_col"}

\* C8: in every Column Map with a strain column, the specification column (by
\* keyword or inferred) is none of the four CFU day columns, and the four CFU day
\* columns are pairwise distinct and differ from the strain column.
C8_ColumnsDistinct ==
    (pc = "rows" /\ "strain_col" \in DOMAIN column_map) =>
        /\ CfuColumnKeys \subseteq DOMAIN column_map
        /\ "specification_col" \in DOMAIN column_map =>
               \A k \in CfuColumnKeys : column_map[k] # column_map["specification_col"]
        /\ \A k, l \in CfuColumnKeys : k # l => column_map[k] # column_map[l]
        /\ \A k \in CfuColumnKeys : column_map[k] # column_map["strain_col"]

----------------------------------------------------------------------------
(* Properties of the Date-Block Extractor *)

\* the date-like cell texts of the pages, each with its zero-padded MM/DD form and
\* its month and day
DateLikeCells == {
    [text |-> <<"0", "1", " ", "1", "5">>, padded |-> <<"0", "1", "/", "1", "5">>, month |-> 1, day |-> 15],
    [text |-> <<"0", "1", " ", "2", "2">>, padded |-> <<"0", "1", "/", "2", "2">>, month |-> 1, day |-> 22],
    [text |-> <<"0", "1", " ", "2", "9">>, padded |-> <<"0", "1", "/", "2", "9">>, month |-> 1, day |-> 29],
    [text |-> <<"0", "2", " ", "1", "2">>, padded |-> <<"0", "2", "/", "1", "2">>, month |-> 2, day |-> 12],
    [text |-> <<"1", "/", "5">>, padded |-> <<"0", "1", "/", "0", "5">>, month |-> 1, day |-> 5],
    [text |-> <<"0", ".", "1", " ", "1", "5">>, padded |-> <<"0", "1", "/", "1", "5">>, month |-> 1, day |-> 15],
    [text |-> <<"1", "2", "-", "2", "5">>, padded |-> <<"1", "2", "/", "2", "5">>, month |-> 12, day |-> 25],
    [text |-> <<"3", " ", " ", "1">>, padded |-> <<"0", "3", "/", "0", "1">>, month |-> 3, day |-> 1],
    [text |-> <<"1", "3", "/", "4", "5">>, padded |-> <<"1", "3", "/", "4", "5">>, month |-> 13, day |-> 45],
    [text |-> <<"0", "2", ".", "3", "0">>, padded |-> <<"0", "2", "/", "3", "0">>, month |-> 2, day |-> 30],
    [text |-> <<"1", "2", "/", "2", "0">>, padded |-> <<"1", "2", "/", "2", "0">>, month |-> 12, day |-> 20],
    [text |-> <<"0", "2", "/", "2", "8">>, padded |-> <<"0", "2", "/", "2", "8">>, month |-> 2, day |-> 28],
    [text |-> <<"0", "3", "/", "0", "1">>, padded |-> <<"0", "3", "/", "0", "1">>, month |-> 3, day |-> 1],
    [text |-> <<"0", "/", "5">>, padded |-> <<"0", "0", "/", "0", "5">>, month |-> 0, day |-> 5]}

IsDateLike(text) == \E e \in DateLikeCells : e.text = text
DateLikeEntry(text) == CHOOSE e \in DateLikeCells : e.text = text

\* the positions of the date-like cells of a row
DateLikeIn(row) == {i \in 1..Len(row) : IsDateLike(row[i].text)}

\* the k-th date-like cell of a row in ascending column order
KthDateLike(row, k) ==
    LET i == CHOOSE i \in DateLikeIn(row) :
                 Cardinality({j \in DateLikeIn(row) : row[j].col < row[i].col}) = k - 1
    IN  DateLikeEntry(row[i].text)

\* the rows among rows 0-4 with at least four date-like cells, and with any
FourDateRows(tm) == {r \in DOMAIN tm : r <= 4 /\ Cardinality(DateLikeIn(tm[r])) >= 4}
DateLikeRows(tm) == {r \in DOMAIN tm : r <= 4 /\ DateLikeIn(tm[r]) # {}}

Lowest(rows) == CHOOSE r \in rows : \A q \in rows : r <= q

\* rows indexed from 0 without gaps
Gapless(tm) == DOMAIN tm = 0..(Cardinality(DOMAIN tm) - 1)

DateBlock(d0, d7, d14, d28) == [date_0 |-> d0, date_7 |-> d7, date_14 |-> d14, date_28 |-> d28]

\* C9: in a matrix without gaps, if some row among rows 0-4 has at least four
\* date-like cells, the Date Block is the first four date-like cells, in ascending
\* column order, of the lowest such row, each as zero-padded MM/DD, whatever earlier
\* rows with fewer date-like cells, further cells and later rows hold.
C9_FourDateRow ==
    (pc # "date" /\ Gapless(table_matrix) /\ FourDateRows(table_matrix) # {}) =>
        LET row == table_matrix[Lowest(FourDateRows(table_matrix))]
        IN  /\ date_info = DateBlock(KthDateLike(row, 1).padded, KthDateLike(row, 2).padded,
                                     KthDateLike(row, 3).padded, KthDateLike(row, 4).padded)
            /\ row = DateRowSample =>
                   date_info = DateBlock(<<"0", "1", "/", "1", "5">>, <<"0", "1", "/", "2", "2">>, <<"0", "1", "/", "2", "9">>, <<"0", "2", "/", "1", "2">>)

\* a single date-like cell in row 0, below it a row with five date-like cells held
\* out of column order, an invalid date among its first four
C9_Witness ==
    /\ pc # "date"
    /\ Gapless(table_matrix)
    /\ table_matrix[0] = D_Single
    /\ \E r \in 1..4 : r \in DOMAIN table_matrix /\ table_matrix[r] = D_FiveUnsorted
    /\ date_info = DateBlock(<<"1", "2", "/", "2", "5">>, <<"0", "1", "/", "0", "5">>, <<"1", "3", "/", "4", "5">>, <<"0", "1", "/", "1", "5">>)

\* the days before each month of the reference year 2024, and the days of the year
DaysBefore == <<0, 31, 60, 91, 121, 152, 182, 213, 244, 274, 305, 335, 366>>

IsCalendarDate(month, day) ==
    month \in 1..12 /\ day >= 1 /\ DaysBefore[month] + day <= DaysBefore[month + 1]

TenDigits == <<"0", "1", "2", "3", "4", "5", "6", "7", "8", "9">>

\* MM/DD of the day `offset` days after month/day; past December it is a day of
\* January
DaysLater(month, day, offset) ==
    LET n == DaysBefore[month] + day + offset
        o == IF n > DaysBefore[13] THEN n - DaysBefore[13] ELSE n
        m == CHOOSE m \in 1..12 : DaysBefore[m] < o /\ o <= DaysBefore[m + 1]
        d == o - DaysBefore[m]
    IN  <<TenDigits[(m \div 10) + 1], TenDigits[(m % 10) + 1], "/",
          TenDigits[(d \div 10) + 1], TenDigits[(d % 10) + 1]>>

\* C10: if no row among rows 0-4 has four date-like cells but some cell there is
\* date-like, day-0 is the first date-like token found (rows in ascending order) and
\* day-7, day-14 and day-28 are day-0 plus 7, 14 and 28 calendar days in the
\* reference year, rolling over months and wrapping past December; a single cell
\* 03/01 gives 03/01, 03/08, 03/15, 03/29.
C10_SingleDateDerived ==
    (pc # "date" /\ FourDateRows(table_matrix) = {} /\ DateLikeRows(table_matrix) # {}) =>
        LET row == table_matrix[Lowest(DateLikeRows(table_matrix))]
        IN  /\ \E i \in DateLikeIn(row) :
                   LET e == DateLikeEntry(row[i].text)
                   IN  /\ DOMAIN date_info = {"date_0", "date_7", "date_14", "date_28"}
                       /\ date_info["date_0"] = e.padded
                       /\ IsCalendarDate(e.month, e.day) =>
                              date_info = DateBlock(e.padded, DaysLater(e.month, e.day, 7),
                                                    DaysLater(e.month, e.day, 14),
                                                    DaysLater(e.month, e.day, 28))
            /\ row = D_Single =>
                   date_info = DateBlock(<<"0", "3", "/", "0", "1">>, <<"0", "3", "/", "0", "8">>, <<"0", "3", "/", "1", "5">>, <<"0", "3", "/", "2", "9">>)

\* a text of the form two digits, '/', two digits
IsMonthSlashDay(text) ==
    /\ Len(text) = 5
    /\ text[3] = "/"
    /\ \A i \in {1, 2, 4, 5} : \E k \in 1..10 : TenDigits[k] = text[i]

\* C11: the Date-Block Extractor returns either the empty block or a block with
\* exactly the keys day-0, day-7, day-14 and day-28, each value two digits, '/',
\* two digits; never a partial block and never an exception; and the block is
\* empty whenever no cell in rows 0-4 is date-like.
C11_BlockShape ==
    pc # "date" =>
        /\ \/ date_info = EmptyDict
           \/ /\ DOMAIN date_info = {"date_0", "date_7", "date_14", "date_28"}
              /\ \A k \in DOMAIN date_info : IsMonthSlashDay(date_info[k])
        /\ DateLikeRows(table_matrix) = {} => date_info = EmptyDict

\* row 0 holds a token that is no calendar date and then 12/20: datetime() raises on
\* the first, the scan goes on and the block wraps past December
C11_Witness ==
    /\ pc # "date"
    /\ table_matrix[0] = D_InvalidThenWrap
    /\ date_info = DateBlock(<<"1", "2", "/", "2", "0">>, <<"1", "2", "/", "2", "7">>, <<"0", "1", "/", "0", "3">>, <<"0", "1", "/", "1", "7">>)

----------------------------------------------------------------------------
(* Properties of the Value Normalizer *)

Normalized == call.op = "_clean_cfu_value" /\ call.pc # "called"

CanonicalOutputs == {<<"5", ".", "5", "U+00D7", "1", "0", "^", "5">>, <<"<", "1", "0">>, <<"<", "1", "0", "^", "2">>, <<"<", "1", "0", "^", "3">>}

\* C12: the Value Normalizer is idempotent, normalize(normalize(x, d), d) =
\* normalize(x, d) for every cell text x and day column d, and the canonical outputs
\* 5.5x10^5, <10, <10^2 and <10^3 are fixed points of the normalizer and of each of
\* its stages.
C12_Idempotent ==
    /\ (call.op = "_clean_cfu_value" /\ call.pc = "returned_again") =>
           call.again = call.result
    /\ (Normalized /\ call.value \in CanonicalOutputs) =>
           /\ call.result = call.value
           /\ _split_merged_cells(call.value) = call.value
           /\ _remove_noise(call.value) = call.value
           /\ _normalize_scientific(call.value) = call.value
           /\ call.day_column # Day0 => _fix_less_than_10(call.value) = call.value

\* the literal spellings of <10: optional space, optional trailing quote
LiteralLessThan10 == {<<"<", "1", "0">>, <<"<", " ", "1", "0">>, <<"<", "1", "0", "\"">>, <<"<", " ", "1", "0", "\"">>, <<"<", "1", "0", "'">>, <<"<", " ", "1", "0", "'">>}

\* what the correction stage resolves a cell of a 7, 14 or 28 day column to
Resolved(value) ==
    _normalize_scientific(_fix_less_than_10(_remove_noise(_split_merged_cells(value))))

\* C13: in the day-7 column a value the correction stage resolves to exactly <10 ends
\* as <10 if the original text is a literal spelling of <10 and as <10^2 for every
\* other original text (CIO, 40, Lio, a bare digit, ...); a value with an explicit
\* exponent is left unchanged, and day-14 and day-28 values are never promoted.
C13_Day7Promotion ==
    (Normalized /\ call.value # <<>>) =>
        /\ (call.day_column = Day7 /\ Resolved(call.value) = LessThan10) =>
               call.result = IF call.value \in LiteralLessThan10 THEN LessThan10
                             ELSE LessThan100
        /\ (call.day_column = Day7 /\ Contains(Resolved(call.value), <<"^">>)) =>
               call.result = Resolved(call.value)
        /\ call.day_column \in {Day14, Day28} => call.result = Resolved(call.value)

\* misread tokens of the correction table, each with its noise-stripped text
MisreadTokens == {
    [raw |-> <<"C", "I", "O">>, stripped |-> <<"C", "I", "O">>],
    [raw |-> <<"4", "0">>, stripped |-> <<"4", "0">>],
    [raw |-> <<"3">>, stripped |-> <<"3">>],
    [raw |-> <<"L", "i", "o">>, stripped |-> <<"L", "i", "o">>],
    [raw |-> <<"C", "1", "0">>, stripped |-> <<"C", "1", "0">>],
    [raw |-> <<"4", "1", "0">>, stripped |-> <<"4", "1", "0">>],
    [raw |-> <<"9", "0">>, stripped |-> <<"9", "0">>],
    [raw |-> <<"4", "0", "U+00B0">>, stripped |-> <<"4", "0">>],
    [raw |-> <<"4", "0", "U+20AC">>, stripped |-> <<"4", "0">>],
    [raw |-> <<"C", "I", "U+00D2">>, stripped |-> <<"C", "I", "U+00D2">>],
    [raw |-> <<"1", "1", "0">>, stripped |-> <<"1", "1", "0">>],
    [raw |-> <<"(", "1", "0", ")">>, stripped |-> <<"(", "1", "0", ")">>],
    [raw |-> <<"4", "1", "0", "2">>, stripped |-> <<"4", "1", "0", "2">>],
    [raw |-> <<"1", "0", "3">>, stripped |-> <<"1", "0", "3">>],
    [raw |-> <<"L", " ", "1", "0", "\"">>, stripped |-> <<"L", " ", "1", "0">>],
    [raw |-> <<".", ".", ".">>, stripped |-> <<".", ".", ".">>],
    [raw |-> <<"2", " ", "<", "1", "0">>, stripped |-> <<"2", " ", "<", "1", "0">>]}

\* C14: in the day-0 column the normalizer returns no text starting with '<' unless
\* the raw cell contains '<': the detection-limit correction table is not applied, a
\* misread token (CIO, 40, a bare digit) comes back as its noise-stripped text.
C14_Day0NoLimit ==
    (Normalized /\ call.day_column = Day0) =>
        /\ StartsWith(call.result, <<"<">>) => Contains(call.value, <<"<">>)
        /\ \A token \in MisreadTokens :
               call.value = token.raw => call.result = token.stripped

\* the misread token 40 with a degree sign in the day-0 column comes back as 40
C14_Witness ==
    /\ Normalized
    /\ call.day_column = Day0
    /\ call.value = <<"4", "0", "U+00B0">>
    /\ call.result = <<"4", "0">>

\* cells in which OCR merged two adjacent cells, each with the first of its values
MergedCells == {
    [raw |-> <<"7", ".", "0", "X", "1", "0", "2", " ", "1", ".", "0", " ", "U+00D7", "1", "0", "3">>, first |-> <<"7", ".", "0", "X", "1", "0", "2">>],
    [raw |-> <<"7", ".", "0", "X", "1", "0", "2", " ", "1", ".", "0", "X", "1", "0", "3">>, first |-> <<"7", ".", "0", "X", "1", "0", "2">>],
    [raw |-> <<"5", ".", "5", "X", "1", "0", "5", " ", "1", ".", "0", "X", "1", "0", "3">>, first |-> <<"5", ".", "5", "X", "1", "0", "5">>],
    [raw |-> <<"<", "5", ".", "5", "X", "1", "0", "5", " ", "<", "1", ".", "0", "X", "1", "0", "3">>, first |-> <<"<", "5", ".", "5", "X", "1", "0", "5">>],
    [raw |-> <<"<", "1", "0", " ", "<", " ", "1", "0", "\"">>, first |-> <<"<", "1", "0">>],
    [raw |-> <<"<", " ", "1", "0", "\"", " ", "<", " ", "1", "0", "}">>, first |-> <<"<", " ", "1", "0", "\"">>],
    [raw |-> <<"<", "1", "0", " ", "<", "4", "0">>, first |-> <<"<", "1", "0">>],
    [raw |-> <<"<", "1", "0", " ", "<", "2", "0">>, first |-> <<"<", "1", "0">>]}

\* C15: of a cell with two or more values in scientific notation or two or more
\* '<digits' tokens only the first occurrence is kept: the result is what the first
\* value alone is normalized to, whatever the later values are; the raw text
\* 7.0X102 1.0 x103 gives exactly 7.0x10^2.
C15_FirstOfMerged ==
    Normalized =>
        /\ \A merged \in MergedCells :
               call.value = merged.raw =>
                   call.result = _clean_cfu_value(merged.first, S_aureus, call.day_column)
        /\ call.value = <<"7", ".", "0", "X", "1", "0", "2", " ", "1", ".", "0", " ", "U+00D7", "1", "0", "3">> =>
               call.result = <<"7", ".", "0", "U+00D7", "1", "0", "^", "2">>

\* the noise-stripped cell is no merged cell, no entry or regular expression of the
\* correction table changes it, and it holds no value in scientific notation,
\* whichever of x, X and the multiplication sign is its separator
Unrecognized(value) ==
    /\ _split_merged_cells(value) = value
    /\ _fix_less_than_10(_remove_noise(value)) = _remove_noise(value)
    /\ ReSearch(<<Plus(Digits), Opt({"."}), Star(Digits), Star(Whitespace),
                  One({Times, "x", "X"}), Star(Whitespace), Lit("1"), Lit("0")>>,
                _remove_noise(value)).start = 0

\* C16: a cell that matches nothing of the correction table and no scientific
\* notation pattern is returned as its noise-stripped text, character for character,
\* the letters x and X included, in every day column; Max stays Max.
C16_Unchanged ==
    Normalized =>
        /\ Unrecognized(call.value) => call.result = _remove_noise(call.value)
        /\ call.value = <<"M", "a", "x">> => call.result = <<"M", "a", "x">>

----------------------------------------------------------------------------
(* Properties of the Identifier Extractor *)

Extracted == call.op \in Extractors /\ call.pc = "returned"

\* C17: the Value Normalizer and the Identifier Extractor are total: normalize
\* returns a text for every input, the empty text for the empty input, and extract
\* returns a pair of texts in which an identifier that did not match is the empty
\* text, never None.
C17_Total ==
    /\ Normalized =>
           /\ call.result \in Seq(STRING)
           /\ call.value = <<>> => call.result = <<>>
    /\ Extracted =>
           /\ Len(call.result) = 2
           /\ \A k \in 1..2 : call.result[k] # None
           /\ call.text \in {<<>>, <<"a", "b", "c">>} => call.result = <<<<>>, <<>>>>

\* texts with a token in the exact form and a token with 1 for I, in either order
TwoTokenTexts == {
    [text |-> <<"2", "5", "A", "1", "5", "1", "1", "4", " ", "2", "5", "B", "2", "0", "I", "3", "3">>, exact |-> <<"2", "5", "B", "2", "0", "I", "3", "3">>],
    [text |-> <<"2", "5", "B", "2", "0", "I", "3", "3", " ", "2", "5", "A", "1", "5", "1", "1", "4">>, exact |-> <<"2", "5", "B", "2", "0", "I", "3", "3">>],
    [text |-> <<"2", "5", "A", "1", "5", "I", "1", "4", " ", "2", "5", "B", "2", "0", "1", "1", "4">>, exact |-> <<"2", "5", "A", "1", "5", "I", "1", "4">>]}

\* C18: the test-number patterns are tried in the order exact form, 1 for I, lower
\* priority forms, and the first pattern that matches decides: a token in the exact
\* form is returned as it is even if a misread token stands before it in the text, a
\* token with 1 in the sixth position is returned with I there (25A15114-SOME TEXT
\* gives 25A15I14), and the returned test number never has 1, ! or | there.
C18_ExactFirst ==
    Extracted =>
        /\ \A two \in TwoTokenTexts : call.text = two.text => call.result[1] = two.exact
        /\ call.text = <<"2", "5", "A", "1", "5", "1", "1", "4", "-", "S", "O", "M", "E", " ", "T", "E", "X", "T">> =>
               call.result[1] = <<"2", "5", "A", "1", "5", "I", "1", "4">>
        /\ Len(call.result[1]) >= 6 => call.result[1][6] = "I"

\* C19: the extractor of the assembler recognises every test number of the
\* documented format (any 2-digit year, a letter A-L, 2-digit code, I, 2 or 3 digits),
\* and when OCR dropped the I (25A1514) it puts I back after the 2-digit code
\* without dropping or replacing a digit (25A15I14).
C19_DocumentedFormat ==
    (Extracted /\ call.op = "_extract_test_info_from_row") =>
        \A year \in Years, letter \in Letters, code \in Codes, suffix \in Suffixes :
            /\ call.text = year \o letter \o code \o <<"I">> \o suffix =>
                   call.result[1] = call.text
            /\ (Len(suffix) = 2 /\ call.text = year \o letter \o code \o suffix) =>
                   call.result[1] = year \o letter \o code \o <<"I">> \o suffix

----------------------------------------------------------------------------
(* Properties of a document of several pages *)

\* the keys of a record (lines 527-537)
RecordKeys == {"test_number", "prescription_number", "strain", "cfu_0day", "cfu_7day", "cfu_14day", "cfu_28day", "judgment", "final_judgment"}

AloneRecord(test, prescription, strain, day0, day7, day14, day28, judgment, final) ==
    [test_number |-> test, prescription_number |-> prescription, strain |-> strain,
     cfu_0day |-> day0, cfu_7day |-> day7, cfu_14day |-> day14, cfu_28day |-> day28,
     judgment |-> judgment, final_judgment |-> final]

\* what the program returns for each page of DocumentPages when that page is the
\* only one it processes
ResultAlone(tm) ==
    CASE tm = DatedPage ->
        [success |-> TRUE,
         data |-> <<AloneRecord(<<"2", "5", "E", "1", "5", "I", "1", "4">>, <<"G", "B", "1", "9", "1", "9", "-", "Z", "M", "B">>, <<"E", ".", "c", "o", "l", "i">>, <<"5", ".", "5", "U+00D7", "1", "0", "^", "5">>, <<"<", "1", "0">>, <<"<", "1", "0">>, <<"<", "1", "0">>, <<"U+C801", "U+D569">>, <<>>),
                     AloneRecord(<<"2", "5", "E", "1", "5", "I", "1", "4">>, <<"G", "B", "1", "9", "1", "9", "-", "Z", "M", "B">>, <<"S", ".", "a", "u", "r", "e", "u", "s">>, <<"6", ".", "8", "U+00D7", "1", "0", "^", "5">>, <<"<", "1", "0", "^", "2">>, <<"<", "1", "0">>, <<"<", "1", "0">>, <<"U+C801", "U+D569">>, <<>>)>>,
         date_info |-> ("date_0" :> <<"0", "1", "/", "1", "5">>) @@ ("date_7" :> <<"0", "1", "/", "2", "2">>) @@ ("date_14" :> <<"0", "1", "/", "2", "9">>) @@ ("date_28" :> <<"0", "2", "/", "1", "2">>)]
      [] tm = ContinuedPage ->
        [success |-> TRUE,
         data |-> <<AloneRecord(<<>>, <<>>, <<"S", ".", "a", "u", "r", "e", "u", "s">>, <<"6", ".", "8", "U+00D7", "1", "0", "^", "5">>, <<"<", "1", "0", "^", "2">>, <<"<", "1", "0">>, <<"<", "1", "0">>, <<"U+C801", "U+D569">>, <<>>),
                     AloneRecord(<<"2", "5", "A", "1", "5", "I", "1", "4">>, <<>>, <<"P", ".", "a", "e", "r", "u", "g", "i", "n", "o", "s", "a">>, <<"1", ".", "0", "U+00D7", "1", "0", "^", "0">>, <<>>, <<>>, <<>>, <<"U+BD80", "U+C801", "U+D569">>, <<>>)>>,
         date_info |-> EmptyDict]
      [] tm = UnreadablePage ->
        [success |-> FALSE,
         data |-> <<>>,
         date_info |-> EmptyDict]

\* the records and the date block of result are those of the page tm alone
SameAsAlone(result, tm) ==
    /\ result.success = ResultAlone(tm).success
    /\ result.date_info = ResultAlone(tm).date_info
    /\ [i \in DOMAIN result.data |-> [k \in RecordKeys |-> result.data[i][k]]]
           = ResultAlone(tm).data

\* C20: the records and the date block returned for a page are those of the page
\* processed alone, whatever pages were processed before it, whether or not their
\* pipeline failed, and however a second invocation interleaves; the row loop of
\* every page starts with an empty identifier context and with the header row and
\* the column map of that page.
C20_PageIsolation ==
    /\ pc = "done" => SameAsAlone(page_result, table_matrix)
    /\ pages.other.pc = "done"
          => SameAsAlone(pages.other.page_result, pages.other.table_matrix)
    /\ \A i \in DOMAIN pages.returned :
          SameAsAlone(pages.returned[i].page_result, pages.returned[i].table_matrix)
    /\ (pc = "rows" /\ row_idx = DataStartRow(header_row)) =>
          /\ current_test = <<>>
          /\ current_prescription = <<>>
          /\ header_row = _find_header_row(table_matrix)
          /\ column_map = _identify_columns(table_matrix,
                                            IF header_row = NoHeader THEN 0 ELSE header_row)

\* the page whose first sample has no bulk name is returned without identifiers
\* after the dated page of test 25E15I14 was returned by the same session, while a
\* second invocation is in its row loop with an identifier context of its own
C20_Witness ==
    /\ pc = "done"
    /\ table_matrix = ContinuedPage
    /\ page_result.success
    /\ page_result.data[1].test_number = <<>>
    /\ pages.returned # <<>>
    /\ pages.returned[1].table_matrix = DatedPage
    /\ pages.returned[1].page_result.data[1].test_number = <<"2", "5", "E", "1", "5", "I", "1", "4">>
    /\ pages.other.pc = "rows"
    /\ pages.other.table_matrix = DatedPage
    /\ pages.other.current_test # <<>>

----------------------------------------------------------------------------
(* Properties of the judgment fields *)

CanonicalStrains == {E_coli, P_aeruginosa, S_aureus, C_albicans, A_brasiliensis}

\* the characters that mark a failure, in either letter case
FailMarks == {"X", "x", "U+00D7", "V", "v"}

\* the text holds a fail mark or the word for fail
HoldsFailMarker(text) ==
    \/ \E i \in DOMAIN text : text[i] \in FailMarks
    \/ \E i \in 1..(Len(text) - 2) : SubSeq(text, i, i + 2) = JudgmentFail

PassOrFail(text) == IF HoldsFailMarker(text) THEN JudgmentFail ELSE JudgmentPass

\* the text of the cell of column c, empty when the row has no such cell
TextAt(row_data, c) ==
    IF \E k \in DOMAIN row_data : row_data[k].col = c
    THEN (CHOOSE cell \in {row_data[k] : k \in DOMAIN row_data} : cell.col = c).text
    ELSE <<>>

JudgedAsDocumented(rec) ==
    LET row_data == table_matrix[rec.row]
    IN  /\ rec.strain \in CanonicalStrains
        /\ rec.judgment = IF "judgment_col" \in DOMAIN column_map
                          THEN PassOrFail(TextAt(row_data, column_map["judgment_col"]))
                          ELSE JudgmentPass
        /\ rec.final_judgment =
              IF "final_judgment_col" \notin DOMAIN column_map
                 \/ TextAt(row_data, column_map["final_judgment_col"]) = <<>>
              THEN <<>>
              ELSE PassOrFail(TextAt(row_data, column_map["final_judgment_col"]))

----------------------------------------------------------------------------
(* Properties of the strain normalizers *)

\* the texts that name none of the five strains, by any spelling or part of one
NamesNoStrain == {<<>>, <<"w", "a", "t", "e", "r">>, <<"B", "a", "c", "i", "l", "l", "u", "s", " ", "s", "u", "b", "t", "i", "l", "i", "s">>, <<"T", "o", "t", "a", "l">>, <<"N", "/", "A">>}

\* C22: both strain normalizers map every documented spelling of a strain (binomial
\* name, abbreviated form, abbreviated form with period and space), in any letter
\* case, to the canonical short form of that strain, and every text that names none
\* of the five strains to the empty text.
C22_StrainAliases ==
    (call.op \in StrainNormalizers /\ call.pc = "returned") =>
        /\ \A a \in DocumentedAliases :
              call.text \in {a.spelling, Upper(a.spelling), Lower(a.spelling)}
                 => call.result = a.canonical
        /\ call.text \in NamesNoStrain => call.result = <<>>

----------------------------------------------------------------------------
(* Properties of the structural keywords *)

\* the rows 0-4 of the matrix that hold a structural keyword
StructuralIn(tm) == {r \in DOMAIN tm : r <= 4 /\ tm[r] \in StructuralRows}

\* C23: in a matrix without gaps, whenever a row among rows 0-4 holds a structural
\* keyword, the resolver returns the lowest such row as the header, even when a row
\* with a smaller index holds a strain keyword, with or without CFU-shaped values;
\* the strain keywords decide only when rows 0-4 hold no structural keyword.
C23_StructuralFirst ==
    (pc \notin {"date", "find_header"} /\ StructuralIn(table_matrix) # {}) =>
        /\ header_row \in StructuralIn(table_matrix)
        /\ \A r \in StructuralIn(table_matrix) : header_row <= r

\* the header is the row of index 3 with a structural keyword although row 0 holds a
\* strain name and CFU values
C23_Witness ==
    /\ pc \notin {"date", "find_header"}
    /\ table_matrix[0] = R_BulkBoth_Ecoli
    /\ 3 \in DOMAIN table_matrix
    /\ table_matrix[3] = S_Specification
    /\ header_row = 3

----------------------------------------------------------------------------
(* Properties of pages without a header row *)

\* C24: when the resolver signals no-header, the assembler starts at row 0 and
\* returns a record for every row whose strain cell names one of the five strains,
\* row 0 and the row that made the resolver signal no-header included, whichever
\* strain row 0 names, however it is spelled, and wherever the signalling row lies.
C24_HeaderlessRecords ==
    (pc = "done" /\ header_row = NoHeader) =>
        {page_result.data[i].row : i \in DOMAIN page_result.data}
            = {r \in DOMAIN table_matrix : table_matrix[r] \in NamedStrainRows}

----------------------------------------------------------------------------
(* Properties of the positional CFU columns *)

\* the column of the specification keyword in the header of the page
KeywordSpecificationColumn ==
    CASE table_matrix[0] = HP_SpecAfter -> 2
      [] table_matrix[0] = HP_SpecApart -> 3
      [] table_matrix[0] = HP_SpecBefore -> 0
      [] OTHER -> NoCol

\* the rows after the header with a cell in column c, and the first five of them
HoldersOf(c) ==
    {r \in DOMAIN table_matrix : r > 0 /\ \E k \in DOMAIN table_matrix[r] : table_matrix[r][k].col = c}
SampledOf(c) == {r \in HoldersOf(c) : Cardinality({q \in HoldersOf(c) : q < r}) < 5}

\* the column after the strain column is inferred to be the specification column
InferredSpecification ==
    /\ KeywordSpecificationColumn = NoCol
    /\ Cardinality({r \in SampledOf(2) : TextAt(table_matrix[r], 2) = V_Specification}) >= 3

\* C25: with no day column found by keyword, the four day columns are consecutive
\* and start right after the strain column, or one column further right when a
\* specification column sits right after the strain column; without specification
\* keyword that column is inferred to be the specification column iff at least 3 of
\* the first 5 rows after the header with a cell there hold a specification value,
\* and the inference moves the start by exactly one column.
C25_PositionalColumns ==
    pc = "rows" =>
        LET strain_col == 1
            start == IF KeywordSpecificationColumn = strain_col + 1 \/ InferredSpecification
                     THEN strain_col + 2 ELSE strain_col + 1
        IN  /\ column_map["strain_col"] = strain_col
            /\ column_map["cfu_0_col"] = start
            /\ column_map["cfu_7_col"] = start + 1
            /\ column_map["cfu_14_col"] = start + 2
            /\ column_map["cfu_28_col"] = start + 3
            /\ InferredSpecification <=>
                  /\ KeywordSpecificationColumn = NoCol
                  /\ "specification_col" \in DOMAIN column_map
            /\ InferredSpecification => column_map["specification_col"] = strain_col + 1

----------------------------------------------------------------------------
(* Properties of the failures of a page *)

\* the invocation of process_preservation_page has come to its end
PageCallEnded ==
    /\ call.op = "process_preservation_page"
    /\ call.pc \in {"returned", "raised"}

\* the result of a failed page
ReportsFailure(result) ==
    /\ ~result.success
    /\ result.data = <<>>
    /\ result.date_info = EmptyDict

\* C26 as amended: process_preservation_page never raises to its caller: a refused
\* DRM file, a page that does not render, an exception of the OCR service or of any
\* other step, and a page with no records all end in a returned result with
\* success False, data [] and date_info {}; success is True only with a non-empty
\* data; a progress workbook that cannot be read counts as an empty one and fails
\* no page
C26_NeverRaises ==
    /\ call.op = "process_preservation_page" => ~call.raised /\ call.pc # "raised"
    /\ PageCallEnded =>
          /\ call.failure # "none" => ReportsFailure(call.result)
          /\ call.result.success => call.result.data # <<>>
          /\ call.result.success <=> call.failure = "none"
          /\ call.progress_failed => call.progress_data = EmptyDict

\* C26 as stated: a failure of the progress-file loading, too, ends in a result
\* with success False, data [] and date_info {}
C26_Original ==
    /\ call.op = "process_preservation_page" => ~call.raised /\ call.pc # "raised"
    /\ PageCallEnded =>
          /\ call.failure # "none" \/ call.progress_failed => ReportsFailure(call.result)
          /\ call.result.success => call.result.data # <<>>

\* the OCR service raised after the temporary file was written, and the caller got
\* the failed result with the exception as its message
C26_Witness ==
    /\ PageCallEnded
    /\ call.failure = "ocr"
    /\ call.pc = "returned"
    /\ call.result = [InitialResult EXCEPT !.message = <<"exception", "ocr">>]

----------------------------------------------------------------------------
(* Properties of the session of app_preservation *)

InSession == call.op = "app_preservation"

\* C27: the page pointer goes on only from a saved page: whatever the user does,
\* every page of the current document before current_page is in saved_pages
C27_PointerAfterSave ==
    InSession /\ call.current_file_name # NoFile =>
        \A p \in 1..(call.current_page - 1) :
            <<call.current_file_name, p>> \in call.saved_pages

\* the user has reached the third page of a.pdf, came back to the second, and the
\* first two pages are saved
C27_Witness ==
    /\ InSession
    /\ call.pc = "idle"
    /\ call.event = "previous"
    /\ KeyOf(call) = <<"a.pdf", 2>>
    /\ <<"a.pdf", 3>> \in DOMAIN call.ocr_data_frames
    /\ call.saved_pages = {<<"a.pdf", 1>>, <<"a.pdf", 2>>}

\* a record is in the workbook: the sheet of its test number holds its cells in
\* the row of its strain
InWorkbook(sheets, record) ==
    /\ record.test_number \in DOMAIN sheets
    /\ record.strain \in DOMAIN sheets[record.test_number]
    /\ sheets[record.test_number][record.strain] =
          [cfu_0day |-> record.cfu_0day, cfu_7day |-> record.cfu_7day,
           cfu_14day |-> record.cfu_14day, cfu_28day |-> record.cfu_28day,
           judgment |-> record.judgment]

\* C28: when Save reports success for a page, the page is in saved_pages and every
\* record of the data of the page is in a sheet of the workbook, on every page on
\* which Save is enabled
C28_SaveReported ==
    InSession /\ call.event = "save reported" =>
        /\ KeyOf(call) \in call.saved_pages
        /\ ocr_completed(call) =>
              LET data == call.ocr_data_frames[KeyOf(call)].data
              IN  \A i \in 1..Len(data) : InWorkbook(call.sheets, data[i])

\* C29: what the save of a page wrote is in the workbook until that page is saved
\* again: the save of another page deletes none of it
C29_OtherPagesKept ==
    InSession =>
        \A key \in DOMAIN call.written :
            \A cell \in call.written[key] :
                /\ cell.sheet \in DOMAIN call.sheets
                /\ cell.strain \in DOMAIN call.sheets[cell.sheet]
                /\ call.sheets[cell.sheet][cell.strain] = cell.cells

\* an OCR run of the current page starts, or ends at once with a failure
OcrStarts ==
    /\ call.pc \in {"idle", "rerun"}
    /\ call'.pc = "ocr" \/ (call'.event = "ocr failed" /\ call.pc # "ocr" /\ call' # call
                             /\ call'.ocr_data_frames # call.ocr_data_frames)

\* the steps of an OCR run in the session
OcrRunsAsDocumented ==
    /\ OcrStarts =>
          /\ KeyOf(call') = <<call.current_file_name, call.current_page>>
          /\ ~has_data(call)
          /\ call.pc = "rerun" =>
                /\ call.current_page > 1
                /\ ~ocr_completed(call)
          /\ call.pc = "idle" => ~OcrDisabled(call)
    /\ \A key \in DOMAIN call.ocr_data_frames :
          call.ocr_data_frames[key].data # <<>> /\ call'.event \in {"ocr stored", "ocr failed"}
              => /\ key \in DOMAIN call'.ocr_data_frames
                 /\ call'.ocr_data_frames[key] = call.ocr_data_frames[key]
    /\ \A key \in DOMAIN call'.auto_runs : call'.auto_runs[key] <= 1
    /\ call.pc = "rerun" /\ call.event = "ocr failed" /\ call' # call => call'.pc = "idle"

\* C30: the OCR of a page runs automatically at most once, on a page after the
\* first without a stored result, or on a click of the OCR button, which is
\* enabled only while the page has no data; no OCR run replaces a stored result with
\* data; and after a failed OCR the script comes to rest until the user acts
C30_OcrRuns == [][InSession => OcrRunsAsDocumented]_vars

\* the automatic OCR of the second page has failed, the script rests, and the
\* OCR button is enabled for the retry
C30_Witness ==
    /\ InSession
    /\ call.pc = "idle"
    /\ KeyOf(call) = <<"a.pdf", 2>>
    /\ AutoRuns(call, KeyOf(call)) = 1
    /\ ocr_completed(call)
    /\ call.ocr_data_frames[KeyOf(call)].error
    /\ ~OcrDisabled(call)

====
